---- MODULE Spec2Model ----
(***************************************************************************)
(* A model of the NFL chat query service: the query classifier             *)
(* (NFLQueryService._classify_query), the data aggregator                  *)
(* (NFLQueryService._fetch_relevant_data) over the upstream data client    *)
(* (NFLApiClient), the top-level NFLQueryService.process_query, and the    *)
(* LLM gateway with its cache and its summarizers (LLMService).            *)
(*                                                                         *)
(* Spec runs one process_query request; SpecClassify and SpecRepeat call   *)
(* the classifier on its own, SpecClient a client method, SpecSummarize a  *)
(* summarizer, SpecGateway generate_response, call after call, SpecPrompt  *)
(* generate_response once on contexts of every length, SpecConcurrent      *)
(* several generate_response calls at once.                                *)
(*                                                                         *)
(* Strings are TLA+ strings; the regular expressions and substring tests   *)
(* of the classifier are computed character by character.                  *)
(***************************************************************************)
EXTENDS Integers, Sequences, FiniteSets, TLC

VARIABLES
    clock,      \* the wall clock: a date [year, month, day]
    query,      \* the raw query text of the request being handled
    pc,         \* where the handler stands
    out1,       \* result of the first _classify_query call on query
    out2,       \* result of the latest _classify_query call on query
    reads,      \* the clock readings of the latest _classify_query call
    intent,     \* process_query: the (query_type, params) of its query
    fpc,        \* _fetch_relevant_data: the await it is suspended at
    pending,    \* the upstream request in flight
    combined,   \* _fetch_relevant_data: combined_data
    profiles,   \* _fetch_relevant_data: team_profiles
    todo,       \* _fetch_relevant_data: the team codes still to fetch a profile for
    calls,      \* history: the upstream requests issued, in order
    outcomes,   \* history: what each request of calls ended in
    context,    \* process_query: context_data
    llm_cache,  \* LLm_service.llm_cache
    time,       \* time.time()
    inflight,   \* the inference call in flight
    history,    \* history: the generate_response calls, in order
    result,     \* a client method on its own: what the call ended in
    response,   \* what process_query returned
    payload,    \* a summarizer on its own: the summarizer called and its argument
    digest      \* a summarizer on its own: what the call ended in

\* the variables of the classifier's own specifications
cvars == <<out1, out2>>

\* the variables of a summarizer called on its own
dvars == <<payload, digest>>

\* the variables of the query service
svars == <<intent, fpc, pending, combined, profiles, todo, calls, outcomes, context,
           llm_cache, time, inflight, history, result, response, dvars>>

vars == <<clock, query, pc, reads, cvars, svars>>

\* Python's None
None == "None"

(***************************************************************************)
(* Characters and strings                                                  *)
(***************************************************************************)
Digits == {"0", "1", "2", "3", "4", "5", "6", "7", "8", "9"}

UpperLetters ==
    {"A", "B", "C", "D", "E", "F", "G", "H", "I", "J", "K", "L", "M",
     "N", "O", "P", "Q", "R", "S", "T", "U", "V", "W", "X", "Y", "Z"}

LowerLetters ==
    {"a", "b", "c", "d", "e", "f", "g", "h", "i", "j", "k", "l", "m",
     "n", "o", "p", "q", "r", "s", "t", "u", "v", "w", "x", "y", "z"}

\* s[i] as a one-character string ("" outside the string)
CharAt(s, i) == IF i >= 1 /\ i <= Len(s) THEN SubSeq(s, i, i) ELSE ""

\* str.lower() on one character
LowerChar(c) ==
    CASE c = "A" -> "a" [] c = "B" -> "b" [] c = "C" -> "c" [] c = "D" -> "d"
      [] c = "E" -> "e" [] c = "F" -> "f" [] c = "G" -> "g" [] c = "H" -> "h"
      [] c = "I" -> "i" [] c = "J" -> "j" [] c = "K" -> "k" [] c = "L" -> "l"
      [] c = "M" -> "m" [] c = "N" -> "n" [] c = "O" -> "o" [] c = "P" -> "p"
      [] c = "Q" -> "q" [] c = "R" -> "r" [] c = "S" -> "s" [] c = "T" -> "t"
      [] c = "U" -> "u" [] c = "V" -> "v" [] c = "W" -> "w" [] c = "X" -> "x"
      [] c = "Y" -> "y" [] c = "Z" -> "z" [] OTHER -> c

\* str.lower()
RECURSIVE Lower(_)
Lower(s) == IF s = "" THEN "" ELSE LowerChar(SubSeq(s, 1, 1)) \o Lower(Tail(s))

\* t occurs in s at position i
MatchAt(s, t, i) == i >= 1 /\ i + Len(t) - 1 <= Len(s) /\ SubSeq(s, i, i + Len(t) - 1) = t

\* Python's `t in s`
In(t, s) == \E i \in 1..(Len(s) - Len(t) + 1) : MatchAt(s, t, i)

\* any(term in s for term in terms)
AnyIn(terms, s) == \E t \in terms : In(t, s)

\* the least element of a non-empty set of integers
Least(S) == CHOOSE i \in S : \A j \in S : i <= j

\* the end of the longest run of characters of class cls that starts at i
\* (i - 1 when s[i] is not in cls): a greedy cls* from position i
RECURSIVE RunEnd(_, _, _)
RunEnd(s, cls, i) == IF CharAt(s, i) \in cls THEN RunEnd(s, cls, i + 1) ELSE i - 1

(***************************************************************************)
(* The wall clock (datetime.datetime.now()): a calendar date               *)
(***************************************************************************)
IsLeap(y) == (y % 4 = 0 /\ y % 100 # 0) \/ y % 400 = 0

DaysInMonth(y, m) ==
    IF m = 2 THEN (IF IsLeap(y) THEN 29 ELSE 28)
    ELSE IF m \in {4, 6, 9, 11} THEN 30 ELSE 31

NextDay(d) ==
    IF d.day < DaysInMonth(d.year, d.month)
    THEN [d EXCEPT !.day = d.day + 1]
    ELSE IF d.month < 12
         THEN [year |-> d.year, month |-> d.month + 1, day |-> 1]
         ELSE [year |-> d.year + 1, month |-> 1, day |-> 1]

RECURSIVE AddDays(_, _)
AddDays(d, n) == IF n = 0 THEN d ELSE AddDays(NextDay(d), n - 1)

\* d1 is not after d2
DateLeq(d1, d2) ==
    \/ d1.year < d2.year
    \/ d1.year = d2.year /\ d1.month < d2.month
    \/ d1.year = d2.year /\ d1.month = d2.month /\ d1.day <= d2.day

(***************************************************************************)
(* NFLQueryService.__init__: the team alias table, in declaration order    *)
(* (a Python dict iterates in insertion order)                             *)
(***************************************************************************)
team_patterns ==
    << <<"cardinals", "ARI">>, <<"falcons", "ATL">>, <<"ravens", "BAL">>,
       <<"bills", "BUF">>, <<"panthers", "CAR">>, <<"bears", "CHI">>,
       <<"bengals", "CIN">>, <<"browns", "CLE">>, <<"cowboys", "DAL">>,
       <<"broncos", "DEN">>, <<"lions", "DET">>, <<"packers", "GB">>,
       <<"texans", "HOU">>, <<"colts", "IND">>, <<"jaguars", "JAX">>,
       <<"chiefs", "KC">>, <<"raiders", "LV">>, <<"chargers", "LAC">>,
       <<"rams", "LA">>, <<"dolphins", "MIA">>, <<"vikings", "MIN">>,
       <<"patriots", "NE">>, <<"saints", "NO">>, <<"giants", "NYG">>,
       <<"jets", "NYJ">>, <<"eagles", "PHI">>, <<"steelers", "PIT">>,
       <<"seahawks", "SEA">>, <<"49ers", "SF">>, <<"niners", "SF">>,
       <<"buccaneers", "TB">>, <<"bucs", "TB">>, <<"titans", "TEN">>,
       <<"commanders", "WAS">>, <<"washington", "WAS">> >>

(***************************************************************************)
(* NFLQueryService._classify_query                                         *)
(***************************************************************************)
\* re.search(r'20\d{2}', query): the positions where the pattern matches
YearMatches(q) ==
    {i \in 1..(Len(q) - 3) :
        MatchAt(q, "20", i) /\ CharAt(q, i + 2) \in Digits /\ CharAt(q, i + 3) \in Digits}

\* the year taken from the rightmost match instead of the leftmost
ExtractYearRightmost(q, now) ==
    IF YearMatches(q) # {}
    THEN LET i == CHOOSE k \in YearMatches(q) : \A j \in YearMatches(q) : j <= k
         IN  SubSeq(q, i, i + 3)
    ELSE ToString(now.year)

\* the year always taken from the clock
ExtractYearFromClock(q, now) == ToString(now.year)

\* params["year"]: the leftmost match, else str(datetime.now().year)
ExtractYear(q, now) ==
    IF YearMatches(q) # {}
    THEN SubSeq(q, Least(YearMatches(q)), Least(YearMatches(q)) + 3)
    ELSE ToString(now.year)

\* re.search(r'week (\d+)', query): the positions where the pattern matches
WeekMatches(q) ==
    {i \in 1..(Len(q) - 5) : MatchAt(q, "week ", i) /\ CharAt(q, i + 5) \in Digits}

Min(a, b) == IF a <= b THEN a ELSE b
Max(a, b) == IF a >= b THEN a ELSE b

\* the derived week counted from August instead of September
DerivedWeekFromAugust(month, day) ==
    IF month < 9
    THEN "1"
    ELSE LET week_num == ((month - 8) * 4) + (day \div 7) + 1
         IN  ToString(week_num)

\* the week derived from the current date (lines 83-92)
DerivedWeek(month, day) ==
    IF month < 9
    THEN "1"
    ELSE LET week_num == ((month - 9) * 4) + (day \div 7) + 1
         IN  ToString(Min(17, Max(1, week_num)))

\* params["week"]: group(1) of the leftmost match (greedy \d+), else derived
ExtractWeek(q, nowMonth, nowDay) ==
    IF WeekMatches(q) # {}
    THEN LET i == Least(WeekMatches(q))
         IN  SubSeq(q, i + 5, RunEnd(q, Digits, i + 5))
    ELSE DerivedWeek(nowMonth.month, nowDay.day)

\* the season type derived from the current month (lines 101-107)
DerivedSeasonType(month) ==
    IF month < 9 THEN "PRE"
    ELSE IF month > 12 \/ month < 3 THEN "PST"
    ELSE "REG"

\* params["season_type"]
ExtractSeasonType(q, now) ==
    IF AnyIn({"preseason", "pre-season", "pre season"}, q) THEN "PRE"
    ELSE IF AnyIn({"postseason", "post-season", "post season", "playoffs"}, q) THEN "PST"
    ELSE DerivedSeasonType(now.month)

\* teams_found: the code of every alias occurring in q, in table order
RECURSIVE TeamsFrom(_, _)
TeamsFrom(q, k) ==
    IF k > Len(team_patterns) THEN << >>
    ELSE (IF In(team_patterns[k][1], q) THEN <<team_patterns[k][2]>> ELSE << >>)
         \o TeamsFrom(q, k + 1)

\* the table scanned from its last entry to its first
RECURSIVE TeamsFromDown(_, _)
TeamsFromDown(q, k) ==
    IF k < 1 THEN << >>
    ELSE (IF In(team_patterns[k][1], q) THEN <<team_patterns[k][2]>> ELSE << >>)
         \o TeamsFromDown(q, k - 1)

ExtractTeamsReversed(q) == TeamsFromDown(q, Len(team_patterns))

\* the scan stopped at the first alias found
ExtractTeamsFirstOnly(q) == IF TeamsFrom(q, 1) = << >> THEN << >> ELSE <<Head(TeamsFrom(q, 1))>>

\* a second alias of a team already found adds nothing
ExtractTeamsDistinct(q) ==
    LET hits == {k \in 1..Len(team_patterns) :
                    /\ In(team_patterns[k][1], q)
                    /\ ~(/\ k > 1
                         /\ team_patterns[k - 1][2] = team_patterns[k][2]
                         /\ In(team_patterns[k - 1][1], q))}
        nth(n) == CHOOSE k \in hits : Cardinality({j \in hits : j < k}) = n - 1
    IN  [n \in 1..Cardinality(hits) |-> team_patterns[nth(n)][2]]

ExtractTeams(q) == TeamsFrom(q, 1)

\* the alternation at the head of name_pattern
PositionKeywords ==
    {"player", "quarterback", "qb", "running back", "rb", "wide receiver", "wr",
     "tight end", "te"}

\* [A-Z][a-z]+ [A-Z][a-z]+ matches s from position j; the position it ends at, else 0
NameEnd(s, j) ==
    LET e1 == RunEnd(s, LowerLetters, j + 1)
        e2 == RunEnd(s, LowerLetters, e1 + 3)
    IN  IF /\ CharAt(s, j) \in UpperLetters
           /\ e1 >= j + 1
           /\ CharAt(s, e1 + 1) = " "
           /\ CharAt(s, e1 + 2) \in UpperLetters
           /\ e2 >= e1 + 3
        THEN e2 ELSE 0

\* where the name group of a match of name_pattern at position i starts, else 0
NameStart(s, i) ==
    LET ks == {k \in PositionKeywords :
                  /\ MatchAt(s, k, i)
                  /\ CharAt(s, i + Len(k)) = " "
                  /\ NameEnd(s, i + Len(k) + 1) > 0}
    IN  IF ks = {} THEN 0 ELSE i + Len(CHOOSE k \in ks : TRUE) + 1

\* re.search(name_pattern, s): the positions where the pattern matches
NameMatches(s) == {i \in 1..Len(s) : NameStart(s, i) > 0}

\* group(1) of the leftmost match of name_pattern in s
NameGroup(s) ==
    LET j == NameStart(s, Least(NameMatches(s)))
    IN  SubSeq(s, j, NameEnd(s, j))

\* the chain of ifs of lines 126-145, injuries tested before the rankings
KeywordTypeInjuriesFirst(q) ==
    IF AnyIn({"injury", "injured", "hurt", "sidelined", "out", "questionable",
              "probable"}, q)
    THEN "injuries"
    ELSE IF AnyIn({"ranking", "rank", "best", "top", "stats", "statistics",
                   "projections"}, q)
    THEN "player_rankings"
    ELSE IF AnyIn({"matchup", "vs", "versus", "against", "playing against", "face off",
                   "game between"}, q)
    THEN "matchups"
    ELSE IF AnyIn({"schedule", "upcoming", "games", "playing", "when", "calendar"}, q)
    THEN "schedule"
    ELSE IF AnyIn({"depth chart", "roster", "lineup", "starters", "bench",
                   "team composition"}, q)
    THEN "depth_chart"
    ELSE IF AnyIn({"standings", "record", "win-loss", "win/loss", "division standing",
                   "conference standing"}, q)
    THEN "standings"
    ELSE IF AnyIn({"boxscore", "score", "result", "game result", "points",
                   "final score"}, q)
    THEN "boxscore"
    ELSE None

\* the chain of ifs of lines 126-145: the type of the first group with a term
\* in q, None when the chain falls through
KeywordType(q) ==
    IF AnyIn({"ranking", "rank", "best", "top", "stats", "statistics", "projections"}, q)
    THEN "player_rankings"
    ELSE IF AnyIn({"matchup", "vs", "versus", "against", "playing against", "face off",
                   "game between"}, q)
    THEN "matchups"
    ELSE IF AnyIn({"injury", "injured", "hurt", "sidelined", "out", "questionable",
                   "probable"}, q)
    THEN "injuries"
    ELSE IF AnyIn({"schedule", "upcoming", "games", "playing", "when", "calendar"}, q)
    THEN "schedule"
    ELSE IF AnyIn({"depth chart", "roster", "lineup", "starters", "bench",
                   "team composition"}, q)
    THEN "depth_chart"
    ELSE IF AnyIn({"standings", "record", "win-loss", "win/loss", "division standing",
                   "conference standing"}, q)
    THEN "standings"
    ELSE IF AnyIn({"boxscore", "score", "result", "game result", "points",
                   "final score"}, q)
    THEN "boxscore"
    ELSE None

\* the chain without its last line, the default return
QueryTypeNoDefault(q) == KeywordType(q)

\* the query type returned (lines 126-148): the default is "general"
QueryType(q) == IF KeywordType(q) # None THEN KeywordType(q) ELSE "general"

\* _classify_query(raw), the clock being read as now[1] (line 73), now[2]
\* (line 83), now[3] (line 84) and now[4] (line 101)
classify_query(raw, now) ==
    LET q      == Lower(raw)
        teams  == ExtractTeams(q)
        base   == [year        |-> ExtractYear(q, now[1]),
                   week        |-> ExtractWeek(q, now[2], now[3]),
                   season_type |-> ExtractSeasonType(q, now[4])]
        withT  == IF teams # << >> THEN base @@ [teams |-> teams] ELSE base
        withP  == IF NameMatches(q) # {} THEN withT @@ [player |-> NameGroup(q)] ELSE withT
    IN  [query_type |-> QueryType(q), params |-> withP]

(***************************************************************************)
(* NFLApiClient: one GET per method; a reply is a status with a body, or   *)
(* no reply at all (a transport failure)                                   *)
(***************************************************************************)
\* the request each client method issues (lines 13-39)
get_teams == [op |-> "get_teams", path |-> <<"nfl", "teams">>]
get_schedule(year, season_type) ==
    [op |-> "get_schedule", path |-> <<"nfl", "schedule", year, season_type>>]
get_team_profile(team_id) ==
    [op |-> "get_team_profile", path |-> <<"nfl", "teams", team_id>>]
get_player_profile(player_id) ==
    [op |-> "get_player_profile", path |-> <<"nfl", "players", player_id>>]
get_game_boxscore(game_id) ==
    [op |-> "get_game_boxscore", path |-> <<"nfl", "games", game_id, "boxscore">>]
get_standings(year, season_type) ==
    [op |-> "get_standings", path |-> <<"nfl", "standings", year, season_type>>]
get_weekly_injuries(year, season_type, week) ==
    [op |-> "get_weekly_injuries", path |-> <<"nfl", "injuries", year, season_type, week>>]

\* response.raise_for_status() passes 2xx only
IsSuccess(status) == status >= 200 /\ status <= 299

\* every failure reported with the code 500
api_get_500(reply) ==
    IF reply.kind = "http" /\ IsSuccess(reply.status) /\ "body" \in DOMAIN reply
    THEN [raised |-> FALSE, value |-> reply.body]
    ELSE [raised |-> TRUE, status_code |-> 500]

\* NFLApiClient._get on a reply: the parsed body, or HTTPException carrying
\* the reply's status, 500 for a transport failure and for a 2xx reply whose
\* text is not JSON (it has no body)
api_get(reply) ==
    IF reply.kind = "transport"
    THEN [raised |-> TRUE, status_code |-> 500]
    ELSE IF IsSuccess(reply.status)
         THEN IF "body" \in DOMAIN reply
              THEN [raised |-> FALSE, value |-> reply.body]
              ELSE [raised |-> TRUE, status_code |-> 500]
         ELSE [raised |-> TRUE, status_code |-> reply.status]

(***************************************************************************)
(* NFLQueryService._fetch_relevant_data: its computations between awaits   *)
(***************************************************************************)
\* d[k] = v on a dict
Put(d, k, v) == (k :> v) @@ d

\* seq[:2]
\* the whole list
WholeList(seq) == seq

FirstTwo(seq) == SubSeq(seq, 1, Min(2, Len(seq)))

\* x in seq
Member(x, seq) == \E n \in 1..Len(seq) : seq[n] = x

\* the games with the home or the away alias among teams (lines 203-207, 296-300)
GamesOfTeams(games, teams) ==
    SelectSeq(games, LAMBDA g : Member(g.home, teams) \/ Member(g.away, teams))

\* how often code occurs in teams
Occurrences(code, teams) == Cardinality({n \in 1..Len(teams) : teams[n] = code})

RECURSIVE Repeat(_, _)
Repeat(x, n) == IF n = 0 THEN << >> ELSE <<x>> \o Repeat(x, n - 1)

\* team_games[code] (lines 244-253): a game is appended once for every
\* occurrence of code in teams
RECURSIVE GamesFor(_, _, _)
GamesFor(code, games, teams) ==
    IF games = << >> THEN << >>
    ELSE (IF Head(games).home = code \/ Head(games).away = code
          THEN Repeat(Head(games), Occurrences(code, teams)) ELSE << >>)
         \o GamesFor(code, Tail(games), teams)

TeamGames(games, teams) ==
    [code \in {teams[n] : n \in 1..Len(teams)} |-> GamesFor(code, games, teams)]

\* team_injuries (lines 228-232): the last listed report of each alias in teams
TeamInjuries(reports, teams) ==
    LET hit == {n \in 1..Len(reports) : Member(reports[n].alias, teams)}
    IN  [a \in {reports[n].alias : n \in hit} |->
            reports[CHOOSE n \in hit : /\ reports[n].alias = a
                                       /\ \A k \in hit : reports[k].alias = a => k <= n]]

\* list.sort(key=scheduled, reverse=True): descending and stable
RECURSIVE InsertDesc(_, _)
InsertDesc(g, sorted) ==
    IF sorted = << >> THEN <<g>>
    ELSE IF Head(sorted).scheduled < g.scheduled
         THEN <<g>> \o sorted
         ELSE <<Head(sorted)>> \o InsertDesc(g, Tail(sorted))

RECURSIVE SortDesc(_)
SortDesc(games) ==
    IF games = << >> THEN << >>
    ELSE InsertDesc(games[Len(games)], SortDesc(SubSeq(games, 1, Len(games) - 1)))

\* get_data_sources
get_data_sources(query_type) ==
    CASE query_type = "player_rankings" ->
            <<"NFL team data", "NFL player statistics", "Season standings">>
      [] query_type = "matchups" ->
            <<"NFL schedule data", "Team profiles", "Head-to-head statistics">>
      [] query_type = "injuries" ->
            <<"NFL injury reports", "Team rosters", "Player status updates">>
      [] query_type = "schedule" ->
            <<"NFL team schedules", "League calendar", "Game information">>
      [] query_type = "depth_chart" ->
            <<"NFL team rosters", "Player position data", "Team composition">>
      [] query_type = "standings" ->
            <<"NFL division standings", "Conference rankings", "Team records">>
      [] query_type = "boxscore" ->
            <<"Game statistics", "Player performance data", "Match results">>
      [] query_type = "general" ->
            <<"NFL general information", "League data", "Current season context">>
      [] OTHER -> <<"NFL API data">>

(***************************************************************************)
(* Inputs                                                                  *)
(***************************************************************************)
\* the midnights that may pass during one _classify_query call
MaxMidnights == 1

Date(y, m, d) == [year |-> y, month |-> m, day |-> d]

\* every date of year y
DatesOf(y) == {dt \in {Date(y, m, d) : m \in 1..12, d \in 1..31} :
                  dt.day <= DaysInMonth(y, dt.month)}

\* dates at which a derived parameter is about to change
BoundaryDates == {Date(2026, 8, 31), Date(2026, 12, 31)}

Heads ==
    {"", "Who is the best ", "qb Tom Brady ", "Week 3 ", "week 05 ", "the 12023 "}

Middles ==
    {"", "Eagles", "eagles vs chiefs", "49ers and niners", "programs about",
     "injury report", "upcoming games", "standings", "final score"}

Tails ==
    {"", " in 2024", " week 12", " playoffs", " preseason rankings", " roster"}

\* the two scenario queries of the specification
EaglesStandingsQuery == "What are the standings for the Eagles in 2023"
EaglesChiefsQuery == "How do the Eagles match up against the Chiefs"

ClassifyQueries ==
    {h \o m \o t : h \in Heads, m \in Middles, t \in Tails}
        \cup {EaglesStandingsQuery, EaglesChiefsQuery}

\* queries whose year, week and season type all come from the clock
ClockQueries == {"", "Eagles standings"}

\* queries for two calls of the classifier
RepeatQueries ==
    {h \o m : h \in {"", "Week 3 ", "in 2024 "}, m \in {"", "Eagles roster", "playoffs"}}

\* the clock readings of one call at clock c: the clock never goes back
Readings(c) ==
    {r \in {<<AddDays(c, d1), AddDays(c, d2), AddDays(c, d3), AddDays(c, d4)>> :
               d1 \in 0..MaxMidnights, d2 \in 0..MaxMidnights,
               d3 \in 0..MaxMidnights, d4 \in 0..MaxMidnights} :
        DateLeq(r[1], r[2]) /\ DateLeq(r[2], r[3]) /\ DateLeq(r[3], r[4])}

\* the state of the service when constructed (module scope of the services)
InitQueryService ==
    /\ intent = None
    /\ fpc = "none"
    /\ pending = None
    /\ combined = None
    /\ profiles = << >>
    /\ todo = << >>
    /\ calls = << >>
    /\ outcomes = << >>
    /\ context = None
    /\ llm_cache = << >>
    /\ time = 0
    /\ inflight = None
    /\ history = << >>
    /\ result = None
    /\ response = None
    /\ digest = None

InitService == InitQueryService /\ payload = None

(***************************************************************************)
(* The classifier on its own: _classify_query called on one query while    *)
(* the clock runs                                                          *)
(***************************************************************************)
InitClassify ==
    /\ \/ query \in ClassifyQueries /\ clock \in BoundaryDates
       \/ query \in ClockQueries /\ clock \in DatesOf(2026)
    /\ pc = "idle"
    /\ out1 = None
    /\ out2 = None
    /\ reads = None
    /\ InitService

\* the first call of _classify_query(query)
ClassifyCall ==
    /\ pc = "idle"
    /\ \E now \in Readings(clock) :
          /\ out1' = classify_query(query, now)
          /\ out2' = out1'
          /\ reads' = now
          /\ clock' = now[4]
    /\ pc' = "classified"
    /\ UNCHANGED <<query, svars>>

\* a later call of _classify_query(query)
ClassifyAgain ==
    /\ pc = "classified"
    /\ \E now \in Readings(clock) :
          /\ out2' = classify_query(query, now)
          /\ reads' = now
          /\ clock' = now[4]
    /\ pc' = "reclassified"
    /\ UNCHANGED <<query, out1, svars>>

NextClassify == ClassifyCall

SpecClassify == InitClassify /\ [][NextClassify]_vars

InitRepeat ==
    /\ query \in RepeatQueries
    /\ clock \in BoundaryDates
    /\ pc = "idle"
    /\ out1 = None
    /\ out2 = None
    /\ reads = None
    /\ InitService

NextRepeat == ClassifyCall \/ ClassifyAgain

SpecRepeat == InitRepeat /\ [][NextRepeat]_vars

(***************************************************************************)
(* The upstream backend and the inference service: what they may reply     *)
(***************************************************************************)
Game(id, home, away, scheduled) ==
    [id |-> id, home |-> home, away |-> away, scheduled |-> scheduled]

\* season schedules the backend may hold; a game may come without an id
ScheduleBodies ==
    { [games |-> << >>],
      [games |-> <<Game("g1", "KC", "PHI", 2), Game("g2", "DAL", "SF", 1),
                   Game("g3", "PHI", "DAL", 3), Game("g4", "SF", "KC", 3)>>],
      [games |-> <<Game("g5", "PHI", "KC", 1), Game(None, "KC", "DAL", 4)>>] }

\* weekly injury reports the backend may hold
InjuryBodies ==
    { [teams |-> << >>],
      [teams |-> <<[alias |-> "PHI", players |-> 2], [alias |-> "KC", players |-> 1],
                   [alias |-> "PHI", players |-> 0]>>] }

\* the bodies a 2xx reply to req may carry
Bodies(req) ==
    CASE req.op = "get_teams" -> {[conferences |-> <<"AFC", "NFC">>]}
      [] req.op = "get_standings" -> {[season |-> SubSeq(req.path, 3, 4)]}
      [] req.op = "get_schedule" -> ScheduleBodies
      [] req.op = "get_weekly_injuries" -> InjuryBodies
      [] req.op = "get_team_profile" -> {[alias |-> req.path[3]]}
      [] req.op = "get_player_profile" -> {[id |-> req.path[3]]}
      [] req.op = "get_game_boxscore" -> {[id |-> req.path[3]]}

\* the statuses of the replies that are not 2xx
ErrorStatuses == {404}

\* the failures of a request: a reply that is not 2xx, a 2xx reply whose
\* text is not JSON, or no reply
Failures ==
    {[kind |-> "http", status |-> st] : st \in ErrorStatuses}
    \cup {[kind |-> "http", status |-> 200, text |-> "<html>"], [kind |-> "transport"]}

\* the replies of the inference service to a chat completion request
InferenceReplies ==
    { [kind |-> "http", status |-> 200,
       body |-> [choices |-> <<[message |-> [content |-> "an answer"]]>>]],
      [kind |-> "http", status |-> 200, body |-> [choices |-> << >>]],
      [kind |-> "http", status |-> 429],
      [kind |-> "http", status |-> 500],
      [kind |-> "transport"] }

(***************************************************************************)
(* A method of NFLApiClient called on its own                              *)
(***************************************************************************)
ClientYears == {"2023", "2024"}
ClientSeasonTypes == {"REG", "PST"}
ClientWeeks == {"1", "17"}

\* the calls of the methods of the client
ClientRequests ==
    {get_teams, get_game_boxscore("g1"), get_player_profile("p1")}
    \cup {get_team_profile(t) : t \in {"KC", "PHI"}}
    \cup {get_schedule(y, st) : y \in ClientYears, st \in ClientSeasonTypes}
    \cup {get_standings(y, st) : y \in ClientYears, st \in ClientSeasonTypes}
    \cup {get_weekly_injuries(y, st, w) :
            y \in ClientYears, st \in ClientSeasonTypes, w \in ClientWeeks}

\* the statuses of the replies
ClientStatuses == {200, 201, 301, 404, 429, 500, 503}

\* what may come back on the GET of req: a 2xx reply with a JSON body or with
\* a text that is not JSON, a reply that is not 2xx, or nothing
ClientReplies(req) ==
    {[kind |-> "http", status |-> st, body |-> b] :
        st \in {c \in ClientStatuses : IsSuccess(c)}, b \in Bodies(req)}
    \cup {[kind |-> "http", status |-> st, text |-> "<html>"] :
            st \in {c \in ClientStatuses : IsSuccess(c)}}
    \cup {[kind |-> "http", status |-> st] : st \in {c \in ClientStatuses : ~IsSuccess(c)}}
    \cup {[kind |-> "transport"]}

InitClient ==
    /\ query = ""
    /\ clock = Date(2026, 8, 31)
    /\ pc = "idle"
    /\ out1 = None
    /\ out2 = None
    /\ reads = None
    /\ InitService

\* a method is called: _get sends its GET (lines 52-53)
ClientCall ==
    /\ pc = "idle"
    /\ \E req \in ClientRequests :
          /\ pending' = req
          /\ calls' = Append(calls, req)
    /\ pc' = "get"
    /\ UNCHANGED <<clock, query, reads, cvars, intent, fpc, combined, profiles, todo,
                   outcomes, context, llm_cache, time, inflight, history, result,
                   response, dvars>>

\* the GET ends and so does the method (lines 54-61)
ClientReply ==
    /\ pc = "get"
    /\ \E reply \in ClientReplies(pending) :
          /\ result' = [reply |-> reply, got |-> api_get(reply)]
          /\ pc' = IF api_get(reply).raised THEN "raised" ELSE "returned"
    /\ pending' = None
    /\ UNCHANGED <<clock, query, reads, cvars, intent, fpc, combined, profiles, todo,
                   calls, outcomes, context, llm_cache, time, inflight, history,
                   response, dvars>>

NextClient == ClientCall \/ ClientReply

SpecClient == InitClient /\ [][NextClient]_vars

(***************************************************************************)
(* Python values as the summarizers see them: a value carries its type in  *)
(* t; an operation on a value of the wrong type raises                     *)
(***************************************************************************)
JNull == [t |-> "null"]
JStr(s) == [t |-> "str", v |-> s]
JNum(n) == [t |-> "num", v |-> n]
JList(items) == [t |-> "list", v |-> items]
\* a dict is a function from its keys; a TLA+ record serves as one
JDict(f) == [t |-> "dict", v |-> f]
\* an object json.dumps cannot render (a datetime, a set, ...)
JObject == [t |-> "object"]

EmptyDict == JDict(<< >>)
EmptyList == JList(<< >>)

IsDict(x) == x.t = "dict"
IsList(x) == x.t = "list"
IsStr(x) == x.t = "str"

\* bool(x)
Truth(x) ==
    CASE x.t = "null" -> FALSE
      [] x.t = "str" -> x.v # ""
      [] x.t = "num" -> x.v # 0
      [] x.t = "list" -> x.v # << >>
      [] x.t = "dict" -> DOMAIN x.v # {}
      [] OTHER -> TRUE

\* x.get(k, d), for a dict x
Get(x, k, d) == IF k \in DOMAIN x.v THEN x.v[k] ELSE d

\* x.get(k, {}).get(k2, d) raises unless x and x.get(k, {}) are dicts
Get2Raises(x, k) == ~IsDict(x) \/ ~IsDict(Get(x, k, EmptyDict))
Get2(x, k, k2, d) == Get(Get(x, k, EmptyDict), k2, d)

RECURSIVE SeqOfSet(_)
SeqOfSet(S) ==
    IF S = {} THEN << >>
    ELSE LET x == CHOOSE y \in S : TRUE IN <<x>> \o SeqOfSet(S \ {x})

\* for e in x: a list gives its items, a dict its keys, a str its characters;
\* anything else raises
Iterable(x) == x.t \in {"list", "dict", "str"}
Elems(x) ==
    CASE x.t = "list" -> x.v
      [] x.t = "dict" -> LET keys == SeqOfSet(DOMAIN x.v)
                         IN  [i \in 1..Len(keys) |-> JStr(keys[i])]
      [] x.t = "str" -> [i \in 1..Len(x.v) |-> JStr(CharAt(x.v, i))]

\* the slice left out: all of x
SliceAll(x, n) == x

\* x[:n]: of a list or a str; a dict (or anything else) raises
Sliceable(x) == x.t \in {"list", "str"}
Slice(x, n) ==
    IF x.t = "list" THEN JList(SubSeq(x.v, 1, Min(n, Len(x.v))))
    ELSE JStr(SubSeq(x.v, 1, Min(n, Len(x.v))))

\* k in x, for a str k: a key of a dict, an item of a list, a substring of a
\* str; anything else raises
HasContains(x) == x.t \in {"list", "dict", "str"}
Contains(k, x) ==
    CASE x.t = "dict" -> k \in DOMAIN x.v
      [] x.t = "list" -> \E i \in 1..Len(x.v) : x.v[i].t = "str" /\ x.v[i].v = k
      [] x.t = "str" -> In(k, x.v)

\* the loop "for e in x: <body>" raises when x cannot be iterated or the
\* body raises on one of its items
LoopRaises(x, BodyRaises(_)) ==
    ~Iterable(x) \/ \E i \in 1..Len(Elems(x)) : BodyRaises(Elems(x)[i])

\* the list the loop "for e in x: out.append(Body(e))" builds
LoopList(x, Body(_)) == JList([i \in 1..Len(Elems(x)) |-> Body(Elems(x)[i])])

\* what a summarizer hands back: a value, or the exception it lets escape
Value(x) == [raised |-> FALSE, value |-> x]
Raises == [raised |-> TRUE]

Fallback(text) == JDict([summary |-> JStr(text)])

(***************************************************************************)
(* LLMService: the summarizers of the blocks                               *)
(***************************************************************************)
NotDict(x) == ~IsDict(x)

\* the whole of x carried over, the defaults filled in
PickAll(x, defaults) ==
    JDict([k \in DOMAIN defaults \cup DOMAIN x.v |-> Get(x, k, defaults[k])])

\* the dict of x.get(k, defaults[k]) for the keys k of defaults
Pick(x, defaults) == JDict([k \in DOMAIN defaults |-> Get(x, k, defaults[k])])

\* lines 192-196
LeagueTeam(team) ==
    Pick(team, [name |-> JStr(""), market |-> JStr(""), alias |-> JStr("")])

\* lines 184-198
LeagueDivisionRaises(division) ==
    NotDict(division) \/ LoopRaises(Get(division, "teams", EmptyList), NotDict)
LeagueDivision(division) ==
    JDict([name |-> Get(division, "name", JStr("")),
           alias |-> Get(division, "alias", JStr("")),
           teams |-> LoopList(Get(division, "teams", EmptyList), LeagueTeam)])

\* lines 177-200
LeagueConferenceRaises(conference) ==
    NotDict(conference)
        \/ LoopRaises(Get(conference, "divisions", EmptyList), LeagueDivisionRaises)
LeagueConference(conference) ==
    JDict([name |-> Get(conference, "name", JStr("")),
           alias |-> Get(conference, "alias", JStr("")),
           divisions |-> LoopList(Get(conference, "divisions", EmptyList), LeagueDivision)])

summarize_league_structure(league_data) ==
    IF ~Truth(league_data) THEN Value(EmptyDict)
    ELSE IF NotDict(league_data) THEN Raises
    ELSE IF "conferences" \notin DOMAIN league_data.v
    THEN Value(JDict([league_name |-> Get(league_data, "name", JStr("NFL")),
                      conferences |-> EmptyList]))
    ELSE IF LoopRaises(league_data.v["conferences"], LeagueConferenceRaises)
    THEN Value(Fallback("League structure data available but could not be summarized"))
    ELSE Value(JDict([league_name |-> Get(league_data, "name", JStr("NFL")),
                      conferences |-> LoopList(league_data.v["conferences"],
                                               LeagueConference)]))

\* lines 339-348
StandingsTeam(team) ==
    Pick(team, [name |-> JStr(""), alias |-> JStr(""), wins |-> JNum(0),
                losses |-> JNum(0), ties |-> JNum(0), win_pct |-> JNum(0),
                points_for |-> JNum(0), points_against |-> JNum(0)])

\* lines 331-350
StandingsDivisionRaises(division) ==
    NotDict(division) \/ LoopRaises(Get(division, "teams", EmptyList), NotDict)
StandingsDivision(division) ==
    JDict([name |-> Get(division, "name", JStr("")),
           alias |-> Get(division, "alias", JStr("")),
           teams |-> LoopList(Get(division, "teams", EmptyList), StandingsTeam)])

\* lines 324-352
StandingsConferenceRaises(conference) ==
    NotDict(conference)
        \/ LoopRaises(Get(conference, "divisions", EmptyList), StandingsDivisionRaises)
StandingsConference(conference) ==
    JDict([name |-> Get(conference, "name", JStr("")),
           alias |-> Get(conference, "alias", JStr("")),
           divisions |-> LoopList(Get(conference, "divisions", EmptyList),
                                  StandingsDivision)])

summarize_standings_data(standings_data) ==
    IF ~Truth(standings_data) THEN Value(EmptyDict)
    ELSE IF Get2Raises(standings_data, "season") THEN Raises
    ELSE IF "conferences" \notin DOMAIN standings_data.v
    THEN Value(JDict([season |-> Get2(standings_data, "season", "year", JStr("")),
                      conferences |-> EmptyList]))
    ELSE IF LoopRaises(standings_data.v["conferences"], StandingsConferenceRaises)
    THEN Value(Fallback("Standings data available but could not be summarized"))
    ELSE Value(JDict([season |-> Get2(standings_data, "season", "year", JStr("")),
                      conferences |-> LoopList(standings_data.v["conferences"],
                                               StandingsConference)]))

\* lines 371-383
ScheduleGameRaises(game) ==
    NotDict(game) \/ Get2Raises(game, "home") \/ Get2Raises(game, "away")
ScheduleGame(game) ==
    JDict([id |-> Get(game, "id", JStr("")),
           status |-> Get(game, "status", JStr("")),
           scheduled |-> Get(game, "scheduled", JStr("")),
           home_team |-> JDict([name |-> Get2(game, "home", "name", JStr("")),
                                alias |-> Get2(game, "home", "alias", JStr(""))]),
           away_team |-> JDict([name |-> Get2(game, "away", "name", JStr("")),
                                alias |-> Get2(game, "away", "alias", JStr(""))])])

summarize_schedule_data(data) ==
    IF NotDict(data) THEN Raises
    ELSE LET all == Get(data, "games", EmptyList)
         IN  IF ~Sliceable(all) \/ LoopRaises(Slice(all, 10), ScheduleGameRaises)
             THEN Value(Fallback("Schedule data available but could not be summarized"))
             ELSE Value(JDict([year |-> Get(data, "year", JStr("")),
                               type |-> Get(data, "type", JStr("")),
                               games |-> LoopList(Slice(all, 10), ScheduleGame)]))

\* lines 290-304
GameSummary(game) ==
    JDict([id |-> Get(game, "id", JStr("")),
           status |-> Get(game, "status", JStr("")),
           scheduled |-> Get(game, "scheduled", JStr("")),
           home_team |-> JDict([name |-> Get2(game, "home", "name", JStr("")),
                                alias |-> Get2(game, "home", "alias", JStr("")),
                                points |-> Get(game, "home_points", JNull)]),
           away_team |-> JDict([name |-> Get2(game, "away", "name", JStr("")),
                                alias |-> Get2(game, "away", "alias", JStr("")),
                                points |-> Get(game, "away_points", JNull)])])

summarize_games(games_data) ==
    IF ~Truth(games_data) THEN Value(EmptyList)
    ELSE IF ~Sliceable(games_data) \/ LoopRaises(Slice(games_data, 5), ScheduleGameRaises)
    THEN Value(JList(<<Fallback("Games data available but could not be summarized")>>))
    ELSE Value(LoopList(Slice(games_data, 5), GameSummary))

\* lines 410-415 (and 268-273)
InjuredPlayer(player) ==
    Pick(player, [name |-> JStr(""), position |-> JStr(""), status |-> JStr(""),
                  injury |-> JStr("")])

\* lines 400-418
InjuryTeamRaises(team) ==
    \/ NotDict(team)
    \/ ~Sliceable(Get(team, "players", EmptyList))
    \/ LoopRaises(Slice(Get(team, "players", EmptyList), 10), NotDict)
InjuryTeam(team) ==
    JDict([name |-> Get(team, "name", JStr("")),
           alias |-> Get(team, "alias", JStr("")),
           injuries |-> LoopList(Slice(Get(team, "players", EmptyList), 10),
                                 InjuredPlayer)])

summarize_injury_data(data) ==
    IF NotDict(data) THEN Raises
    ELSE LET all == Get(data, "teams", EmptyList)
         IN  IF ~Sliceable(all) \/ LoopRaises(Slice(all, 10), InjuryTeamRaises)
             THEN Value(Fallback("Injury data available but could not be summarized"))
             ELSE Value(JDict([week |-> Get(data, "week", JStr("")),
                               teams_with_injuries |->
                                   LoopList(Slice(all, 10), InjuryTeam)]))

summarize_team_injuries(injuries_data) ==
    IF ~Truth(injuries_data) THEN Value(EmptyDict)
    ELSE IF NotDict(injuries_data) THEN Raises
    ELSE IF "players" \notin DOMAIN injuries_data.v
    THEN Value(JDict([team |-> Get(injuries_data, "name", JStr("")),
                      alias |-> Get(injuries_data, "alias", JStr("")),
                      injured_players |-> EmptyList]))
    ELSE LET all == injuries_data.v["players"]
         IN  IF ~Sliceable(all) \/ LoopRaises(Slice(all, 10), NotDict)
             THEN Value(Fallback("Team injuries data available but could not be summarized"))
             ELSE Value(JDict([team |-> Get(injuries_data, "name", JStr("")),
                               alias |-> Get(injuries_data, "alias", JStr("")),
                               injured_players |->
                                   LoopList(Slice(all, 10), InjuredPlayer)]))

\* the sort key of line 241
DepthKey(player) == Get(player, "depth", JNum(99))

\* sorted(players, key=...) compares the keys of neighbours: keys that are
\* not all numbers raise as soon as two of them are compared (the payloads
\* considered carry numbers, nulls or nothing as depth)
SortRaises(players) ==
    \/ LoopRaises(players, NotDict)
    \/ /\ Len(Elems(players)) > 1
       /\ \E i \in 1..Len(Elems(players)) : DepthKey(Elems(players)[i]).t # "num"

\* ascending and stable: p comes from before the items of sorted
RECURSIVE InsertAsc(_, _)
InsertAsc(p, sorted) ==
    IF sorted = << >> THEN <<p>>
    ELSE IF DepthKey(p).v <= DepthKey(Head(sorted)).v
         THEN <<p>> \o sorted
         ELSE <<Head(sorted)>> \o InsertAsc(p, Tail(sorted))

RECURSIVE SortAsc(_)
SortAsc(players) ==
    IF Len(players) <= 1 THEN players
    ELSE InsertAsc(Head(players), SortAsc(Tail(players)))

\* lines 232-236
Coach(coach) ==
    Pick(coach, [name |-> JStr(""), position |-> JStr(""), experience |-> JStr("")])

\* lines 242-247
KeyPlayer(player) ==
    Pick(player, [name |-> JStr(""), position |-> JStr(""),
                  jersey_number |-> JStr(""), depth |-> JNum(0)])

summarize_team_profile(profile_data) ==
    IF ~Truth(profile_data) THEN Value(EmptyDict)
    ELSE LET failed == Value(Fallback("Team profile data available but could not be summarized"))
         IN  IF NotDict(profile_data) THEN failed
             ELSE LET hasCoaches == "coaches" \in DOMAIN profile_data.v
                      hasPlayers == "players" \in DOMAIN profile_data.v
                      coaches == profile_data.v["coaches"]
                      players == profile_data.v["players"]
                  IN  IF \/ hasCoaches /\ (~Sliceable(coaches)
                                              \/ LoopRaises(Slice(coaches, 3), NotDict))
                         \/ hasPlayers /\ SortRaises(players)
                      THEN failed
                      ELSE Value(JDict(
                          [team_info |->
                              Pick(profile_data,
                                   [id |-> JStr(""), name |-> JStr(""), market |-> JStr(""),
                                    alias |-> JStr(""), conference |-> JStr(""),
                                    division |-> JStr("")]),
                           coaches |-> IF hasCoaches THEN LoopList(Slice(coaches, 3), Coach)
                                       ELSE EmptyList,
                           key_players |->
                               IF hasPlayers
                               THEN LoopList(Slice(JList(SortAsc(Elems(players))), 10),
                                             KeyPlayer)
                               ELSE EmptyList]))

\* _extract_key_stats: the fields kept of each block, with their defaults
\* (time_of_possession is read from possession_time)
extract_key_stats(stats) ==
    IF ~Truth(stats) THEN Value(EmptyDict)
    ELSE IF ~HasContains(stats) THEN Raises
    ELSE LET blocks == {b \in {"team", "passing", "rushing", "receiving"} :
                            Contains(b, stats)}
         IN  IF blocks # {} /\ (NotDict(stats) \/ \E b \in blocks : NotDict(stats.v[b]))
             THEN Raises
             ELSE Value(JDict([b \in blocks |->
                    CASE b = "team" ->
                           JDict([first_downs |-> Get(stats.v[b], "first_downs", JNum(0)),
                                  total_yards |-> Get(stats.v[b], "total_yards", JNum(0)),
                                  penalties |-> Get(stats.v[b], "penalties", JNum(0)),
                                  penalty_yards |-> Get(stats.v[b], "penalty_yards", JNum(0)),
                                  turnovers |-> Get(stats.v[b], "turnovers", JNum(0)),
                                  time_of_possession |->
                                      Get(stats.v[b], "possession_time", JStr(""))])
                      [] b = "passing" ->
                           Pick(stats.v[b], [completions |-> JNum(0), attempts |-> JNum(0),
                                             yards |-> JNum(0), touchdowns |-> JNum(0),
                                             interceptions |-> JNum(0)])
                      [] b = "rushing" ->
                           Pick(stats.v[b], [attempts |-> JNum(0), yards |-> JNum(0),
                                             touchdowns |-> JNum(0)])
                      [] b = "receiving" ->
                           Pick(stats.v[b], [receptions |-> JNum(0), yards |-> JNum(0),
                                             touchdowns |-> JNum(0)])]))

\* lines 431-437 (and 438-444): one side of the boxscore
BoxscoreSideRaises(data, side) ==
    Get2Raises(data, side) \/ extract_key_stats(Get2(data, side, "statistics", EmptyDict)).raised
BoxscoreSide(data, side) ==
    JDict([name |-> Get2(data, side, "name", JStr("")),
           alias |-> Get2(data, side, "alias", JStr("")),
           points |-> Get(data, side \o "_points", JNum(0)),
           scoring |-> Get2(data, side, "scoring", EmptyList),
           statistics |-> extract_key_stats(Get2(data, side, "statistics", EmptyDict)).value])

summarize_boxscore(data) ==
    IF NotDict(data) \/ BoxscoreSideRaises(data, "home") \/ BoxscoreSideRaises(data, "away")
    THEN Raises
    ELSE Value(JDict([id |-> Get(data, "id", JStr("")),
                      status |-> Get(data, "status", JStr("")),
                      scheduled |-> Get(data, "scheduled", JStr("")),
                      home |-> BoxscoreSide(data, "home"),
                      away |-> BoxscoreSide(data, "away")]))

\* lines 136-138 (and 144-146, 152-154): the summaries of the entries of a
\* dict of blocks
MapSummary(blocks, Summarize(_)) ==
    IF NotDict(blocks) \/ \E k \in DOMAIN blocks.v : Summarize(blocks.v[k]).raised
    THEN Raises
    ELSE Value(JDict([k \in DOMAIN blocks.v |-> Summarize(blocks.v[k]).value]))

\* the blocks of the context _summarize_context_data looks for
BlockKeys ==
    {"league", "standings", "schedule", "team_profiles", "injuries", "team_injuries",
     "relevant_games", "team_games", "boxscore"}

\* the key of the digest a block of the context goes to
DigestKey(key) == IF key = "league" THEN "league_structure" ELSE key

\* lines 126-157: the summary of one block of data
BlockSummary(data, key) ==
    CASE key = "league" -> summarize_league_structure(data.v[key])
      [] key = "standings" -> summarize_standings_data(data.v[key])
      [] key = "schedule" -> summarize_schedule_data(data.v[key])
      [] key = "team_profiles" -> MapSummary(data.v[key], summarize_team_profile)
      [] key = "injuries" -> summarize_injury_data(data.v[key])
      [] key = "team_injuries" -> MapSummary(data.v[key], summarize_team_injuries)
      [] key = "relevant_games" -> summarize_games(data.v[key])
      [] key = "team_games" -> MapSummary(data.v[key], summarize_games)
      [] key = "boxscore" -> summarize_boxscore(data.v[key])

\* the digest of lines 160-163; the error text stands for str(e)
DegradedDigest ==
    JDict([summary |-> JStr("Data available but could not be summarized due to an error"),
           error |-> JStr("str(e)")])

summarize_context_data(data) ==
    IF NotDict(data) THEN Raises
    ELSE LET present == BlockKeys \cap DOMAIN data.v
         IN  IF \E key \in present : BlockSummary(data, key).raised
             THEN Value(DegradedDigest)
             ELSE Value(JDict(
                    [k \in {"query_type", "metadata"} \cup {DigestKey(key) : key \in present} |->
                        CASE k = "query_type" -> Get(data, "query_type", JStr("unknown"))
                          [] k = "metadata" -> Get(data, "metadata", EmptyDict)
                          [] k = "league_structure" -> BlockSummary(data, "league").value
                          [] OTHER -> BlockSummary(data, k).value]))

(***************************************************************************)
(* A summarizer called on its own, on one payload                          *)
(***************************************************************************)
\* the longest list of a payload
MaxItems == 11

\* the list lengths of the payloads: around every cap of the summarizers
Sizes == {0, 1, 3, 4, 5, 6, 10, MaxItems}

ListOf(n, Item(_)) == JList([i \in 1..n |-> Item(i)])

\* d with d[k] = x
With(d, k, x) == JDict((k :> x) @@ d.v)

\* values of the wrong type, and the values bool() takes as false
Malformed == {JNull, JStr("x"), JNum(5), JList(<<JNum(1)>>), JObject}
Falsy == {JNull, JStr(""), JNum(0), EmptyList, EmptyDict}

\* payloads as the backend sends them; each carries keys the summarizers drop
TeamItem(i) ==
    JDict([id |-> JStr("t" \o ToString(i)), name |-> JStr("Team"), market |-> JStr("City"),
           alias |-> JStr("T" \o ToString(i)), wins |-> JNum(i), losses |-> JNum(1)])

LeagueBody(nc, nt) ==
    JDict([name |-> JStr("National Football League"),
           conferences |->
               ListOf(nc, LAMBDA c :
                   JDict([name |-> JStr("Conference"), alias |-> JStr("C" \o ToString(c)),
                          divisions |->
                              ListOf(2, LAMBDA d :
                                  JDict([name |-> JStr("Division"),
                                         alias |-> JStr("D" \o ToString(d)),
                                         teams |-> ListOf(nt, TeamItem)]))]))])

StandingsBody(nc, nt) == With(LeagueBody(nc, nt), "season", JDict([year |-> JNum(2023)]))

StatsBody ==
    JDict([team |-> JDict([first_downs |-> JNum(20), total_yards |-> JNum(350),
                           penalties |-> JNum(4), penalty_yards |-> JNum(30),
                           turnovers |-> JNum(1), possession_time |-> JStr("31:10"),
                           safeties |-> JNum(0)]),
           passing |-> JDict([completions |-> JNum(21), attempts |-> JNum(30),
                              yards |-> JNum(250), touchdowns |-> JNum(2),
                              interceptions |-> JNum(1), rating |-> JNum(98)]),
           rushing |-> JDict([attempts |-> JNum(25), yards |-> JNum(100),
                              touchdowns |-> JNum(1), longest |-> JNum(18)]),
           receiving |-> JDict([receptions |-> JNum(21), yards |-> JNum(250),
                                touchdowns |-> JNum(2), targets |-> JNum(30)]),
           defense |-> JDict([sacks |-> JNum(3)])])

SideBody(alias, ns) ==
    JDict([name |-> JStr("Team"), alias |-> JStr(alias), id |-> JStr("t"),
           scoring |-> ListOf(ns, LAMBDA q : JDict([quarter |-> JNum(q), points |-> JNum(3)])),
           statistics |-> StatsBody])

GameItem(i) ==
    JDict([id |-> JStr("g" \o ToString(i)), status |-> JStr("closed"),
           scheduled |-> JNum(i), venue |-> JStr("Stadium"),
           home |-> JDict([name |-> JStr("Home"), alias |-> JStr("KC")]),
           away |-> JDict([name |-> JStr("Away"), alias |-> JStr("PHI")]),
           home_points |-> JNum(i), away_points |-> JNum(3)])

ScheduleBody(n) ==
    JDict([year |-> JNum(2023), type |-> JStr("REG"), id |-> JStr("s"),
           games |-> ListOf(n, GameItem)])

\* the depths come unsorted and repeat
PlayerItem(i) ==
    JDict([name |-> JStr("P" \o ToString(i)), position |-> JStr("QB"),
           status |-> JStr("Questionable"), injury |-> JStr("Knee"),
           jersey_number |-> JStr(ToString(i)), depth |-> JNum((i * 3) % 4),
           id |-> JStr("p" \o ToString(i))])

CoachItem(i) ==
    JDict([name |-> JStr("Coach" \o ToString(i)), position |-> JStr("Head Coach"),
           experience |-> JStr("5"), id |-> JStr("c" \o ToString(i))])

TeamInjuryBody(np) ==
    JDict([name |-> JStr("Team"), alias |-> JStr("KC"), id |-> JStr("t"),
           players |-> ListOf(np, PlayerItem)])

InjuryBody(nt, np) ==
    JDict([week |-> JNum(3), season |-> JNum(2023),
           teams |-> ListOf(nt, LAMBDA i : TeamInjuryBody(np))])

ProfileBody(nc, np) ==
    JDict([id |-> JStr("t"), name |-> JStr("Team"), market |-> JStr("City"),
           alias |-> JStr("KC"), conference |-> JStr("AFC"), division |-> JStr("West"),
           founded |-> JNum(1960),
           coaches |-> ListOf(nc, CoachItem), players |-> ListOf(np, PlayerItem)])

BoxscoreBody(ns) ==
    JDict([id |-> JStr("g1"), status |-> JStr("closed"), scheduled |-> JNum(1),
           attendance |-> JNum(70000), home_points |-> JNum(27), away_points |-> JNum(24),
           home |-> SideBody("KC", ns), away |-> SideBody("PHI", ns)])

\* a payload, one of its values replaced by a value of the wrong type
Broken(body, key) == {With(body, key, m) : m \in Malformed}

BadItems == {JList(<<m>>) : m \in Malformed}

Summarizers ==
    {"summarize_league_structure", "summarize_standings_data", "summarize_schedule_data",
     "summarize_team_profile", "summarize_injury_data", "summarize_team_injuries",
     "summarize_games", "summarize_boxscore", "extract_key_stats"}

\* the payloads each summarizer is called on
Payloads(fn) ==
    Falsy \cup Malformed \cup
    CASE fn = "summarize_league_structure" ->
            {LeagueBody(nc, nt) : nc \in Sizes, nt \in {0, 2, MaxItems}}
                \cup Broken(LeagueBody(1, 1), "conferences")
                \cup {With(LeagueBody(1, 1), "conferences", b) : b \in BadItems}
                \cup {JDict([name |-> JStr("NFL")])}
      [] fn = "summarize_standings_data" ->
            {StandingsBody(nc, nt) : nc \in Sizes, nt \in {0, 2, MaxItems}}
                \cup Broken(StandingsBody(1, 1), "season")
                \cup Broken(StandingsBody(1, 1), "conferences")
                \cup {LeagueBody(1, 1)}
      [] fn = "summarize_schedule_data" ->
            {ScheduleBody(n) : n \in Sizes}
                \cup Broken(ScheduleBody(1), "games")
                \cup {With(ScheduleBody(1), "games", JList(<<g>>)) :
                        g \in Broken(GameItem(1), "home")}
      [] fn = "summarize_games" ->
            {ListOf(n, GameItem) : n \in Sizes} \cup BadItems
                \cup {JList(<<GameItem(1), g>>) : g \in Broken(GameItem(2), "away")}
      [] fn = "summarize_injury_data" ->
            {InjuryBody(nt, np) : nt \in Sizes, np \in {0, 2, MaxItems}}
                \cup Broken(InjuryBody(1, 1), "teams")
                \cup {With(InjuryBody(1, 1), "teams", JList(<<t>>)) :
                        t \in Broken(TeamInjuryBody(1), "players")}
      [] fn = "summarize_team_injuries" ->
            {TeamInjuryBody(np) : np \in Sizes}
                \cup Broken(TeamInjuryBody(1), "players")
                \cup {With(TeamInjuryBody(1), "players", b) : b \in BadItems}
      [] fn = "summarize_team_profile" ->
            {ProfileBody(nc, np) : nc \in Sizes, np \in Sizes}
                \cup Broken(ProfileBody(1, 1), "coaches")
                \cup Broken(ProfileBody(1, 1), "players")
                \cup {With(ProfileBody(0, 0), "players",
                           JList(<<pl, PlayerItem(2)>>)) : pl \in Broken(PlayerItem(1), "depth")}
      [] fn = "summarize_boxscore" ->
            {BoxscoreBody(ns) : ns \in Sizes}
                \cup Broken(BoxscoreBody(1), "home")
                \cup {With(BoxscoreBody(1), "away", side) :
                        side \in Broken(SideBody("PHI", 1), "statistics")}
                \cup {JDict([id |-> JStr("g1")])}
      [] fn = "extract_key_stats" ->
            {JDict([b \in blocks |-> StatsBody.v[b]]) : blocks \in SUBSET DOMAIN StatsBody.v}
                \cup Broken(StatsBody, "team") \cup Broken(StatsBody, "receiving")
                \cup {JStr("team"), JList(<<JStr("passing")>>)}
                \cup {With(StatsBody, "rushing", EmptyDict)}

\* the call self._<fn>(arg)
Call(fn, arg) ==
    CASE fn = "summarize_league_structure" -> summarize_league_structure(arg)
      [] fn = "summarize_standings_data" -> summarize_standings_data(arg)
      [] fn = "summarize_schedule_data" -> summarize_schedule_data(arg)
      [] fn = "summarize_team_profile" -> summarize_team_profile(arg)
      [] fn = "summarize_injury_data" -> summarize_injury_data(arg)
      [] fn = "summarize_team_injuries" -> summarize_team_injuries(arg)
      [] fn = "summarize_games" -> summarize_games(arg)
      [] fn = "summarize_boxscore" -> summarize_boxscore(arg)
      [] fn = "extract_key_stats" -> extract_key_stats(arg)
      [] fn = "summarize_context_data" -> summarize_context_data(arg)

\* the blocks of a context as the aggregator builds them
GoodBlock(key) ==
    CASE key = "league" -> LeagueBody(2, 2)
      [] key = "standings" -> StandingsBody(2, 2)
      [] key = "schedule" -> ScheduleBody(MaxItems)
      [] key = "team_profiles" -> JDict([KC |-> ProfileBody(4, MaxItems), PHI |-> EmptyDict])
      [] key = "injuries" -> InjuryBody(2, 2)
      [] key = "team_injuries" -> JDict([KC |-> TeamInjuryBody(2)])
      [] key = "relevant_games" -> ListOf(2, GameItem)
      [] key = "team_games" -> JDict([KC |-> ListOf(6, GameItem), SF |-> EmptyList])
      [] key = "boxscore" -> BoxscoreBody(2)

\* blocks whose summarization runs into an exception
BadBlocks(key) ==
    CASE key = "league" -> {With(LeagueBody(1, 1), "conferences", JNull), JStr("x")}
      [] key = "standings" -> {With(StandingsBody(1, 1), "conferences", JNull),
                               With(StandingsBody(1, 1), "season", JNull)}
      [] key = "schedule" -> {With(ScheduleBody(1), "games", JNull), JList(<<JNum(1)>>)}
      [] key = "team_profiles" ->
            {JDict([KC |-> With(ProfileBody(1, 1), "players", JNull)]), JNull}
      [] key = "injuries" -> {With(InjuryBody(1, 1), "teams", JNull), JStr("x")}
      [] key = "team_injuries" ->
            {JDict([KC |-> With(TeamInjuryBody(1), "players", JNull)]),
             JDict([KC |-> JStr("x")])}
      [] key = "relevant_games" -> {JList(<<JNull>>), JNum(5)}
      [] key = "team_games" -> {JDict([KC |-> JList(<<JNull>>)]), JNull}
      [] key = "boxscore" -> {With(BoxscoreBody(1), "home", JNull), JNull}

ContextBase ==
    [query_type |-> JStr("general"),
     metadata |-> JDict([year |-> JStr("2023"), season_type |-> JStr("REG"),
                         week |-> JStr("1")])]

\* the sets of blocks of the contexts: none, one, two or all of them
BlockSets == {S \in SUBSET BlockKeys : Cardinality(S) <= 2} \cup {BlockKeys}

\* the context with the blocks of present, block standing for the one of key
ContextWith(present, key, block) ==
    JDict([k \in present |-> IF k = key THEN block ELSE GoodBlock(k)] @@ ContextBase)

\* the calls of a summarizer: bad names the block of a context that fails
SummarizerCalls ==
    UNION {{[fn |-> fn, arg |-> arg, bad |-> None] : arg \in Payloads(fn)} :
                    fn \in Summarizers}
    \cup {[fn |-> "summarize_context_data", arg |-> arg, bad |-> None] :
            arg \in Falsy \cup Malformed}
    \cup {[fn |-> "summarize_context_data", arg |-> ContextWith(S, None, JNull),
           bad |-> None] : S \in BlockSets}
    \cup UNION {UNION {{[fn |-> "summarize_context_data",
                         arg |-> ContextWith(S, key, block), bad |-> key] :
                            block \in BadBlocks(key)} : key \in S} : S \in BlockSets}

InitSummarize ==
    /\ query = ""
    /\ clock = Date(2026, 8, 31)
    /\ pc = "idle"
    /\ out1 = None
    /\ out2 = None
    /\ reads = None
    /\ InitQueryService
    /\ payload \in SummarizerCalls

\* one call of a summarizer
Summarize ==
    /\ pc = "idle"
    /\ digest' = Call(payload.fn, payload.arg)
    /\ pc' = "summarized"
    /\ UNCHANGED <<clock, query, reads, cvars, intent, fpc, pending, combined, profiles,
                   todo, calls, outcomes, context, llm_cache, time, inflight, history,
                   result, response, payload>>

NextSummarize == Summarize

SpecSummarize == InitSummarize /\ [][NextSummarize]_vars

(***************************************************************************)
(* LLMService.generate_response                                            *)
(***************************************************************************)
LLM_CACHE_TTL == 600

\* the cache key: the digest of query + str(context_data), taken as
\* collision free
cache_key(q, context_data) == <<q, context_data>>

\* an entry of age LLM_CACHE_TTL still used
FreshAtTTL(cache, key, now) ==
    key \in DOMAIN cache /\ now - cache[key][1] <= LLM_CACHE_TTL

\* the entry of cache at key is used at now (lines 35-37)
Fresh(cache, key, now) ==
    key \in DOMAIN cache /\ now - cache[key][1] < LLM_CACHE_TTL

\* json.dumps(x) returns: it raises TypeError on a value that is not JSON
RECURSIVE Dumpable(_)
Dumpable(x) ==
    CASE x.t = "object" -> FALSE
      [] x.t = "list" -> \A i \in 1..Len(x.v) : Dumpable(x.v[i])
      [] x.t = "dict" -> \A k \in DOMAIN x.v : Dumpable(x.v[k])
      [] OTHER -> TRUE

\* len(json.dumps(x, indent=2)) of a value at nesting depth level: an item
\* or member per line, indented by two spaces per level, "," after each but
\* the last, ": " after a key (the strings of the model need no escape)
RECURSIVE JsonLen(_, _), ItemsLen(_, _, _), MembersLen(_, _, _)
JsonLen(x, level) ==
    CASE x.t = "null" -> 4
      [] x.t = "str" -> Len(x.v) + 2
      [] x.t = "num" -> Len(ToString(x.v))
      [] x.t = "list" ->
            IF x.v = << >> THEN 2
            ELSE 1 + ItemsLen(x.v, 1, level + 1) + (Len(x.v) - 1) + 1 + 2 * level + 1
      [] x.t = "dict" ->
            IF DOMAIN x.v = {} THEN 2
            ELSE 1 + MembersLen(x.v, DOMAIN x.v, level + 1)
                   + (Cardinality(DOMAIN x.v) - 1) + 1 + 2 * level + 1

\* the lines of the items of a list from the i-th on
ItemsLen(items, i, level) ==
    IF i > Len(items) THEN 0
    ELSE 1 + 2 * level + JsonLen(items[i], level) + ItemsLen(items, i + 1, level)

\* the lines of the members of a dict with the keys in keys
MembersLen(d, keys, level) ==
    IF keys = {} THEN 0
    ELSE LET k == CHOOSE key \in keys : TRUE
         IN  1 + 2 * level + (Len(k) + 2) + 2 + JsonLen(d[k], level)
             + MembersLen(d, keys \ {k}, level)

\* the characters of the rendering a context message may hold (lines 79-80)
ContextLimit == 4000

TruncationMarker == "...[additional data truncated for size]"

\* the marker appended to a rendering of exactly ContextLimit characters too
TruncateFrom(len) ==
    IF len >= ContextLimit
    THEN [kept |-> ContextLimit, tail |-> TruncationMarker]
    ELSE [kept |-> len, tail |-> ""]

\* lines 79-80 on a rendering of len characters: the characters of it that
\* are kept and the text appended to them
Truncate(len) ==
    IF len > ContextLimit
    THEN [kept |-> ContextLimit, tail |-> TruncationMarker]
    ELSE [kept |-> len, tail |-> ""]

\* lines 64-82, which no try encloses: the content of the context message,
\* or the exception of the summarizer or of json.dumps. The rendering is kept
\* as the digest it renders, the number of its characters that are kept and
\* the text appended to them
ContextMessage(context_data) ==
    LET summarized_data == summarize_context_data(context_data)
    IN  IF summarized_data.raised THEN Raises
        ELSE IF ~Dumpable(summarized_data.value) THEN Raises
        ELSE Value([t |-> "json", v |-> summarized_data.value]
                   @@ Truncate(JsonLen(summarized_data.value, 0)))

\* the messages of the chat completion request (lines 59-82, 91), or the
\* exception that escapes while they are built
Messages(q, context_data) ==
    LET system == [role |-> "system", content |-> JStr("instructions")]
        user == [role |-> "user", content |-> JStr(q)]
    IN  IF Truth(context_data)
        THEN LET context_str == ContextMessage(context_data)
             IN  IF context_str.raised THEN Raises
                 ELSE Value(<<system,
                              [role |-> "system", content |-> JStr("data_instructions")],
                              [role |-> "system", content |-> context_str.value],
                              user>>)
        ELSE Value(<<system, user>>)

RateLimitMessage == "Rate limit exceeded. Please try again later."

SorryPrefix == "Sorry, I couldn't generate a response: "

\* f"Sorry, I couldn't generate a response: {str(e)}"
SorryMessage(e) == SorryPrefix \o e

\* what process_query returns (lines 48-52)
Response(answer, query_type) ==
    [query |-> query, answer |-> answer, data_sources |-> get_data_sources(query_type)]

\* the entry of history of a call
Entry(key, now, state, reply, answer) ==
    [cache_key |-> key, now |-> now, state |-> state, reply |-> reply, answer |-> answer]

NoReply == [kind |-> "none"]

\* generate_response(q, context_data) called at now, up to its await or its
\* end (lines 30-86): the cached answer is returned, or an exception of
\* lines 64-77 escapes, or the request is posted
GenerateResponse(q, context_data, now) ==
    LET key == cache_key(q, context_data)
    IN  /\ IF Fresh(llm_cache, key, now)
           THEN /\ inflight' = None
                /\ history' = Append(history,
                                     Entry(key, now, "hit", NoReply, llm_cache[key][2]))
                /\ pc' = "done"
           ELSE \E messages \in {Messages(q, context_data)} :
                   IF messages.raised
                   THEN /\ inflight' = None
                        /\ history' = Append(history, Entry(key, now, "raised", NoReply, ""))
                        /\ pc' = "raised"
                   ELSE /\ inflight' = [cache_key |-> key, now |-> now,
                                        messages |-> messages.value]
                        /\ history' = Append(history,
                                             Entry(key, now, "awaiting", NoReply, ""))
                        /\ pc' = "llm"
        /\ UNCHANGED llm_cache

\* str(e) of the exception the inference call ends in (lines 86-99)
InferenceFailure(reply) ==
    IF reply.kind = "transport" THEN "ConnectError"
    ELSE IF ~IsSuccess(reply.status) THEN "HTTPStatusError " \o ToString(reply.status)
    ELSE "list index out of range"

\* every answer stored, the apologies too
OutcomeStored(reply) ==
    IF reply.kind = "http" /\ IsSuccess(reply.status) /\ reply.body.choices # << >>
    THEN [answer |-> reply.body.choices[1].message.content, store |-> TRUE]
    ELSE IF reply.kind = "http" /\ reply.status = 429
    THEN [answer |-> RateLimitMessage, store |-> TRUE]
    ELSE [answer |-> SorryMessage(InferenceFailure(reply)), store |-> TRUE]

\* lines 96-111: the answer returned on reply, and whether it is stored
Outcome(reply) ==
    IF reply.kind = "http" /\ IsSuccess(reply.status) /\ reply.body.choices # << >>
    THEN [answer |-> reply.body.choices[1].message.content, store |-> TRUE]
    ELSE IF reply.kind = "http" /\ reply.status = 429
    THEN [answer |-> RateLimitMessage, store |-> FALSE]
    ELSE [answer |-> SorryMessage(InferenceFailure(reply)), store |-> FALSE]

\* generate_response from its await to its end (lines 96-111)
Reply(reply) ==
    LET o == Outcome(reply)
    IN  /\ llm_cache' = IF o.store
                        THEN Put(llm_cache, inflight.cache_key, <<inflight.now, o.answer>>)
                        ELSE llm_cache
        /\ history' = [history EXCEPT ![Len(history)] =
                          Entry(@.cache_key, @.now, "replied", reply, o.answer)]
        /\ inflight' = None
        /\ pc' = "done"

(***************************************************************************)
(* generate_response called on its own: one caller calls it again and      *)
(* again with the same query and context, each call after the one before   *)
(* has ended, while time passes between the calls                          *)
(***************************************************************************)
\* the calls of one run
MaxCalls == 3

GatewayQueries == {"who leads the nfc east", "eagles injuries"}

\* the contexts of the calls: absent, empty, well formed, with a block of the
\* wrong shape, not a mapping, and a mapping with a value that is not JSON
GatewayContexts ==
    { JNull, EmptyDict,
      JDict([schedule |-> ScheduleBody(1)] @@ ContextBase),
      JDict([schedule |-> With(ScheduleBody(1), "games", JNull)] @@ ContextBase),
      JDict([boxscore |-> With(BoxscoreBody(1), "home", JNull)] @@ ContextBase),
      JList(<<JStr("x")>>),
      With(JDict(ContextBase), "metadata", JDict([as_of |-> JObject])) }

\* the seconds from the start of a call to the start of the next
Deltas == {LLM_CACHE_TTL - 1, LLM_CACHE_TTL}

\* the seconds of these an inference call may take
Waits == {0, 1}

InitGateway ==
    /\ query \in GatewayQueries
    /\ clock = Date(2026, 8, 31)
    /\ pc = "idle"
    /\ out1 = None
    /\ out2 = None
    /\ reads = None
    /\ intent = None
    /\ fpc = "none"
    /\ pending = None
    /\ combined = None
    /\ profiles = << >>
    /\ todo = << >>
    /\ calls = << >>
    /\ outcomes = << >>
    /\ context \in GatewayContexts
    /\ llm_cache = << >>
    /\ time = 0
    /\ inflight = None
    /\ history = << >>
    /\ result = None
    /\ response = None
    /\ payload = None
    /\ digest = None

\* generate_response(query, context) is called
GatewayCall ==
    /\ pc \in {"idle", "done", "raised"}
    /\ Len(history) < MaxCalls
    /\ \E d \in Deltas :
          LET now == IF history = << >> THEN time
                     ELSE history[Len(history)].now + d
          IN  /\ time' = now
              /\ GenerateResponse(query, context, now)
    /\ UNCHANGED <<clock, query, reads, cvars, intent, fpc, pending, combined, profiles,
                   todo, calls, outcomes, context, result, response, dvars>>

\* the inference call of the call in progress ends
GatewayReply ==
    /\ pc = "llm"
    /\ \E reply \in InferenceReplies : Reply(reply)
    /\ \E w \in Waits : time' = time + w
    /\ UNCHANGED <<clock, query, reads, cvars, intent, fpc, pending, combined, profiles,
                   todo, calls, outcomes, context, result, response, dvars>>

NextGateway == GatewayCall \/ GatewayReply

SpecGateway == InitGateway /\ [][NextGateway]_vars

(***************************************************************************)
(* generate_response called once, on contexts whose rendering is as long   *)
(* as a context message may be, one character shorter, and longer          *)
(***************************************************************************)
\* a text of n characters
RECURSIVE Pad(_)
Pad(n) ==
    IF n = 0 THEN ""
    ELSE LET half == Pad(n \div 2)
         IN  half \o half \o (IF n % 2 = 1 THEN "x" ELSE "")

\* a context whose metadata, which the digest holds whole (line 131), has a
\* text of n characters
NoteContext(n) == With(JDict(ContextBase), "metadata", JDict([note |-> JStr(Pad(n))]))

\* len(json.dumps(summarized_data, indent=2)) of a context
RenderedLen(context_data) == JsonLen(summarize_context_data(context_data).value, 0)

\* the characters the rendering is short of, or over, the limit
Margins == {-1, 0, 1, 100}

PromptContexts ==
    GatewayContexts
    \cup {NoteContext(ContextLimit - RenderedLen(NoteContext(0)) + d) : d \in Margins}

InitPrompt ==
    /\ query \in GatewayQueries
    /\ clock = Date(2026, 8, 31)
    /\ pc = "idle"
    /\ out1 = None
    /\ out2 = None
    /\ reads = None
    /\ intent = None
    /\ fpc = "none"
    /\ pending = None
    /\ combined = None
    /\ profiles = << >>
    /\ todo = << >>
    /\ calls = << >>
    /\ outcomes = << >>
    /\ context \in PromptContexts
    /\ llm_cache = << >>
    /\ time = 0
    /\ inflight = None
    /\ history = << >>
    /\ result = None
    /\ response = None
    /\ payload = None
    /\ digest = None

\* generate_response(query, context) is called
PromptCall ==
    /\ pc = "idle"
    /\ GenerateResponse(query, context, time)
    /\ UNCHANGED <<clock, query, reads, cvars, intent, fpc, pending, combined, profiles,
                   todo, calls, outcomes, context, time, result, response, dvars>>

\* its inference call ends
PromptReply ==
    /\ pc = "llm"
    /\ \E reply \in InferenceReplies : Reply(reply)
    /\ UNCHANGED <<clock, query, reads, cvars, intent, fpc, pending, combined, profiles,
                   todo, calls, outcomes, context, time, result, response, dvars>>

NextPrompt == PromptCall \/ PromptReply

SpecPrompt == InitPrompt /\ [][NextPrompt]_vars

(***************************************************************************)
(* Concurrent requests: several generate_response calls run as tasks of    *)
(* one event loop over the one llm_cache. A task runs without interruption *)
(* up to its await of the inference call (line 86) and again from the      *)
(* reply to its end; the replies come in any order. history[i] is the call *)
(* i with the key and the clock reading of its start; query, context, pc   *)
(* and inflight are those of the call started last.                        *)
(***************************************************************************)
\* the calls of one run
MaxTasks == 3

\* the arguments of the calls: two queries without context, and a context
\* that is not a mapping
TaskArguments ==
    { <<"who leads the nfc east", JNull>>, <<"eagles injuries", JNull>>,
      <<"eagles injuries", JList(<<JStr("x")>>)>> }

\* the seconds that pass before a call starts
Ticks == {0, 1, LLM_CACHE_TTL - 1}

\* the replies of the inference service: answers that differ, and a 429
TaskReplies ==
    { [kind |-> "http", status |-> 200,
       body |-> [choices |-> <<[message |-> [content |-> answer]]>>]] :
         answer \in {"an answer", "another answer"} }
    \cup {[kind |-> "http", status |-> 429]}

InitConcurrent ==
    /\ query = ""
    /\ clock = Date(2026, 8, 31)
    /\ pc = "idle"
    /\ out1 = None
    /\ out2 = None
    /\ reads = None
    /\ InitService

\* a request arrives: generate_response is called and runs to its await, or
\* to its end when it returns a cached answer or raises (lines 30-86)
TaskCall ==
    /\ Len(history) < MaxTasks
    /\ \E arguments \in TaskArguments, d \in Ticks :
          /\ time' = time + d
          /\ query' = arguments[1]
          /\ context' = arguments[2]
          /\ GenerateResponse(arguments[1], arguments[2], time + d)
    /\ UNCHANGED <<clock, reads, cvars, intent, fpc, pending, combined, profiles, todo,
                   calls, outcomes, result, response, dvars>>

\* the entry written replaces the cache
TaskReplyAlone(i, reply) ==
    LET o == Outcome(reply)
    IN  /\ llm_cache' = IF o.store
                        THEN (history[i].cache_key :> <<history[i].now, o.answer>>)
                        ELSE llm_cache
        /\ history' = [history EXCEPT ![i] =
                          Entry(@.cache_key, @.now, "replied", reply, o.answer)]

\* the entry written at the key of the call started last
TaskReplyShared(i, reply) ==
    LET o == Outcome(reply)
    IN  /\ llm_cache' = IF o.store
                        THEN Put(llm_cache, history[Len(history)].cache_key,
                                 <<history[i].now, o.answer>>)
                        ELSE llm_cache
        /\ history' = [history EXCEPT ![i] =
                          Entry(@.cache_key, @.now, "replied", reply, o.answer)]

\* the entry stamped with the clock at the end of the call
TaskReplyStampedAtEnd(i, reply) ==
    LET o == Outcome(reply)
    IN  /\ llm_cache' = IF o.store
                        THEN Put(llm_cache, history[i].cache_key, <<time, o.answer>>)
                        ELSE llm_cache
        /\ history' = [history EXCEPT ![i] =
                          Entry(@.cache_key, @.now, "replied", reply, o.answer)]

\* generate_response of the call i from its await to its end (lines 96-111)
TaskReply(i, reply) ==
    LET o == Outcome(reply)
    IN  /\ llm_cache' = IF o.store
                        THEN Put(llm_cache, history[i].cache_key,
                                 <<history[i].now, o.answer>>)
                        ELSE llm_cache
        /\ history' = [history EXCEPT ![i] =
                          Entry(@.cache_key, @.now, "replied", reply, o.answer)]

\* the inference call of one of the waiting calls ends
TaskReturn ==
    /\ \E i \in 1..Len(history) :
          /\ history[i].state = "awaiting"
          /\ \E reply \in TaskReplies : TaskReply(i, reply)
    /\ UNCHANGED <<clock, query, pc, reads, cvars, intent, fpc, pending, combined,
                   profiles, todo, calls, outcomes, context, time, inflight, result,
                   response, dvars>>

NextConcurrent == TaskCall \/ TaskReturn

SpecConcurrent == InitConcurrent /\ [][NextConcurrent]_vars

(***************************************************************************)
(* The context process_query hands to generate_response, as Python values  *)
(***************************************************************************)
ListValue(seq, F(_)) == JList([i \in 1..Len(seq) |-> F(seq[i])])

MapValue(f, F(_)) == JDict([k \in DOMAIN f |-> F(f[k])])

GameValue(g) ==
    JDict([id |-> IF g.id = None THEN JNull ELSE JStr(g.id),
           home |-> JDict([alias |-> JStr(g.home)]),
           away |-> JDict([alias |-> JStr(g.away)]),
           scheduled |-> JNum(g.scheduled)])

GamesValue(games) == ListValue(games, GameValue)

ReportValue(r) ==
    JDict([alias |-> JStr(r.alias),
           players |-> JList([i \in 1..r.players |-> JDict([status |-> JStr("Out")])])])

ProfileValue(p) == JDict([alias |-> JStr(p.alias)])

ConferenceValue(c) == JDict([name |-> JStr(c)])

\* the value of the block of combined_data at key k
BlockValue(k, v) ==
    CASE k = "query_type" -> JStr(v)
      [] k = "error" -> JStr(v)
      [] k = "metadata" -> JDict([f \in DOMAIN v |-> JStr(v[f])])
      [] k = "league" -> JDict([conferences |-> ListValue(v.conferences, ConferenceValue)])
      [] k = "standings" ->
            JDict([season |-> JDict([year |-> JStr(v.season[1]), type |-> JStr(v.season[2])])])
      [] k = "schedule" -> JDict([games |-> GamesValue(v.games)])
      [] k = "relevant_games" -> GamesValue(v)
      [] k = "team_games" -> MapValue(v, GamesValue)
      [] k = "injuries" -> JDict([teams |-> ListValue(v.teams, ReportValue)])
      [] k = "team_injuries" -> MapValue(v, ReportValue)
      [] k = "team_profiles" -> MapValue(v, ProfileValue)
      [] k = "boxscore" -> JDict([id |-> JStr(v.id)])

\* context_data as _fetch_relevant_data returns it (lines 324, 328)
AsValue(cd) == JDict([k \in DOMAIN cd |-> BlockValue(k, cd[k])])

(***************************************************************************)
(* NFLQueryService._fetch_relevant_data as a coroutine: every operator     *)
(* below runs the code from one await to the next                          *)
(***************************************************************************)
\* params.get(key, default)
GetOr(params, key, default) == IF key \in DOMAIN params THEN params[key] ELSE default

\* lines 163-166
Args(params) ==
    [year        |-> GetOr(params, "year", "2023"),
     season_type |-> GetOr(params, "season_type", "REG"),
     week        |-> GetOr(params, "week", "1"),
     teams       |-> GetOr(params, "teams", << >>)]

\* await self.api_client.<req>: the coroutine suspends at label
Request(label, req, cd, profs, codes) ==
    /\ fpc' = label
    /\ pending' = req
    /\ calls' = Append(calls, req)
    /\ combined' = cd
    /\ profiles' = profs
    /\ todo' = codes
    /\ UNCHANGED <<context, time, result, dvars>>

\* _fetch_relevant_data returns cd (lines 324, 328)
Return(cd) ==
    /\ fpc' = "none"
    /\ pending' = None
    /\ combined' = cd
    /\ context' = cd
    /\ UNCHANGED <<calls, profiles, todo, time, result, dvars>>

\* the profile loop (lines 188-194, 211-217, 263-279) from its first request
FetchProfiles(cd, codes) ==
    Request("profile", get_team_profile(Head(codes)), cd, << >>, codes)

\* lines 168-322 up to the first await
StartFetch(query_type, params) ==
    LET a == Args(params)
        cd == [query_type |-> query_type,
               metadata |-> [year |-> a.year, season_type |-> a.season_type,
                             week |-> a.week]]
    IN  CASE query_type = "player_rankings" ->
                Request("pr_teams", get_teams, cd, << >>, << >>)
          [] query_type = "matchups" ->
                Request("mu_schedule", get_schedule(a.year, a.season_type), cd, << >>, << >>)
          [] query_type = "injuries" ->
                Request("in_injuries", get_weekly_injuries(a.year, a.season_type, a.week),
                        cd, << >>, << >>)
          [] query_type = "schedule" ->
                Request("sc_schedule", get_schedule(a.year, a.season_type), cd, << >>, << >>)
          [] query_type = "depth_chart" ->
                Request("dc_teams", get_teams, cd, << >>, << >>)
          [] query_type = "standings" ->
                Request("st_standings", get_standings(a.year, a.season_type), cd, << >>, << >>)
          [] query_type = "boxscore" ->
                Request("bx_schedule", get_schedule(a.year, a.season_type), cd, << >>, << >>)
          [] OTHER ->
                Request("ge_teams", get_teams, cd, << >>, << >>)

\* player_rankings: lines 181-184
AfterPrTeams(v, a) ==
    Request("pr_standings", get_standings(a.year, a.season_type),
            Put(combined, "league", v), << >>, << >>)

\* a profile requested for every team named
AfterPrStandingsEveryTeam(v, a) ==
    LET cd == Put(combined, "standings", v)
    IN  IF a.teams # << >>
        THEN FetchProfiles(cd, a.teams)
        ELSE Return(cd)

\* player_rankings: lines 184-194
AfterPrStandings(v, a) ==
    LET cd == Put(combined, "standings", v)
    IN  IF a.teams # << >>
        THEN FetchProfiles(cd, FirstTwo(a.teams))
        ELSE Return(cd)

\* the profile loop after a request: lines 189-194 (and 212-217, 264-279);
\* got says whether the request returned v or raised
AfterProfile(got, v) ==
    LET profs == IF got THEN Put(profiles, Head(todo), v) ELSE profiles
        rest == Tail(todo)
    IN  IF rest # << >>
        THEN Request("profile", get_team_profile(Head(rest)), combined, profs, rest)
        ELSE Return(Put(combined, "team_profiles", profs))

\* matchups: lines 198-217
AfterMuSchedule(v, a) ==
    LET cd == Put(combined, "schedule", v)
    IN  IF a.teams # << >>
        THEN FetchProfiles(Put(cd, "relevant_games", GamesOfTeams(v.games, a.teams)),
                           FirstTwo(a.teams))
        ELSE Return(cd)

\* injuries: lines 221-224
AfterInInjuries(v, a) ==
    Request("in_teams", get_teams, Put(combined, "injuries", v), << >>, << >>)

\* injuries: lines 224-233
AfterInTeams(v, a) ==
    LET cd == Put(combined, "league", v)
    IN  IF a.teams # << >>
        THEN Return(Put(cd, "team_injuries", TeamInjuries(cd.injuries.teams, a.teams)))
        ELSE Return(cd)

\* schedule: lines 237-240
AfterScSchedule(v, a) ==
    Request("sc_teams", get_teams, Put(combined, "schedule", v), << >>, << >>)

\* schedule: lines 240-255
AfterScTeams(v, a) ==
    LET cd == Put(combined, "league", v)
    IN  IF a.teams # << >>
        THEN Return(Put(cd, "team_games", TeamGames(cd.schedule.games, a.teams)))
        ELSE Return(cd)

\* depth_chart: lines 259-279
AfterDcTeams(v, a) ==
    LET cd == Put(combined, "league", v)
    IN  IF a.teams # << >>
        THEN FetchProfiles(cd, FirstTwo(a.teams))
        ELSE FetchProfiles(cd, <<"KC", "SF">>)

\* standings: lines 283-286
AfterStStandings(v, a) ==
    Request("st_teams", get_teams, Put(combined, "standings", v), << >>, << >>)

\* standings: the profiles of the teams named fetched too, as for the rankings
AfterStTeamsThenProfiles(v, a) ==
    IF a.teams # << >>
    THEN FetchProfiles(Put(combined, "league", v), FirstTwo(a.teams))
    ELSE Return(Put(combined, "league", v))

\* standings: line 286
AfterStTeams(v, a) == Return(Put(combined, "league", v))

\* if game_id: (line 311)
Truthy(x) == x # None /\ x # ""

\* the games left in the order of the schedule
AfterBxScheduleUnsorted(v, a) ==
    LET cd == Put(combined, "schedule", v)
        relevant_games == GamesOfTeams(v.games, a.teams)
    IN  IF a.teams # << >> /\ relevant_games # << >>
        THEN LET cd2 == Put(cd, "relevant_games", FirstTwo(relevant_games))
                 game_id == relevant_games[1].id
             IN  IF Truthy(game_id)
                 THEN Request("bx_boxscore", get_game_boxscore(game_id), cd2, << >>, << >>)
                 ELSE Return(cd2)
        ELSE Return(cd)

\* boxscore: lines 290-312
AfterBxSchedule(v, a) ==
    LET cd == Put(combined, "schedule", v)
        relevant_games == SortDesc(GamesOfTeams(v.games, a.teams))
    IN  IF a.teams # << >> /\ relevant_games # << >>
        THEN LET cd2 == Put(cd, "relevant_games", FirstTwo(relevant_games))
                 game_id == relevant_games[1].id
             IN  IF Truthy(game_id)
                 THEN Request("bx_boxscore", get_game_boxscore(game_id), cd2, << >>, << >>)
                 ELSE Return(cd2)
        ELSE Return(cd)

\* boxscore: lines 312-314; got says whether the request returned v or raised
AfterBxBoxscore(got, v) ==
    Return(IF got THEN Put(combined, "boxscore", v) ELSE combined)

\* general: lines 318-319
AfterGeTeams(v, a) ==
    Request("ge_standings", get_standings(a.year, a.season_type),
            Put(combined, "league", v), << >>, << >>)

\* general: the plan ends with the standings, no schedule is fetched
AfterGeStandingsEnd(v, a) == Return(Put(combined, "standings", v))

\* general: lines 319-322
AfterGeStandings(v, a) ==
    Request("ge_schedule", get_schedule(a.year, a.season_type),
            Put(combined, "standings", v), << >>, << >>)

\* general: line 322
AfterGeSchedule(v, a) == Return(Put(combined, "schedule", v))

\* str(e) of the HTTPException raised by the client
ErrorText(e) == "HTTPException " \o ToString(e.status_code)

\* no except clause at the end of the try of line 161: the failure leaves
\* _fetch_relevant_data and process_query
OuterExceptRaise(e) ==
    /\ fpc' = "raised"
    /\ pending' = None
    /\ UNCHANGED <<combined, context, calls, profiles, todo, time, result, dvars>>

\* the except clause of lines 326-328
OuterExcept(e) == Return([error |-> ErrorText(e), query_type |-> combined.query_type])

\* the awaited request returned v: the coroutine runs on from where it stands
Resume(v, a) ==
    CASE fpc = "pr_teams" -> AfterPrTeams(v, a)
      [] fpc = "pr_standings" -> AfterPrStandings(v, a)
      [] fpc = "profile" -> AfterProfile(TRUE, v)
      [] fpc = "mu_schedule" -> AfterMuSchedule(v, a)
      [] fpc = "in_injuries" -> AfterInInjuries(v, a)
      [] fpc = "in_teams" -> AfterInTeams(v, a)
      [] fpc = "sc_schedule" -> AfterScSchedule(v, a)
      [] fpc = "sc_teams" -> AfterScTeams(v, a)
      [] fpc = "dc_teams" -> AfterDcTeams(v, a)
      [] fpc = "st_standings" -> AfterStStandings(v, a)
      [] fpc = "st_teams" -> AfterStTeams(v, a)
      [] fpc = "bx_schedule" -> AfterBxSchedule(v, a)
      [] fpc = "bx_boxscore" -> AfterBxBoxscore(TRUE, v)
      [] fpc = "ge_teams" -> AfterGeTeams(v, a)
      [] fpc = "ge_standings" -> AfterGeStandings(v, a)
      [] fpc = "ge_schedule" -> AfterGeSchedule(v, a)

\* no try around the profile and boxscore requests: every failure reaches
\* the except clause of lines 326-328
UnwindToOuter(e) == OuterExcept(e)

\* the awaited request raised e: the innermost enclosing except clause runs
Unwind(e) ==
    CASE fpc = "profile" -> AfterProfile(FALSE, None)
      [] fpc = "bx_boxscore" -> AfterBxBoxscore(FALSE, None)
      [] OTHER -> OuterExcept(e)

(***************************************************************************)
(* NFLQueryService.process_query, one request                              *)
(***************************************************************************)
\* the queries of the requests
ProcessQueries ==
    { EaglesStandingsQuery, EaglesChiefsQuery,
      "Who is the best", "the best of the 49ers, niners and Eagles", "a versus b",
      "Eagles injury report", "injury report week 3",
      "upcoming games for the chiefs and 49ers and niners", "upcoming games",
      "Eagles roster", "roster", "49ers niners roster",
      "final score chiefs", "final score", "points Eagles 49ers",
      "hello", "" }

\* process_query from the step of _fetch_relevant_data on (lines 43-52): it
\* waits with the fetch; when the fetch has returned it calls
\* generate_response (line 46) and returns what that returns at once; no try
\* encloses either call
AfterFetch ==
    CASE fpc' = "none" ->
            \E context_data \in {AsValue(context')} :
                /\ GenerateResponse(query, context_data, time)
                /\ response' =
                      IF Fresh(llm_cache, cache_key(query, context_data), time)
                      THEN Response(llm_cache[cache_key(query, context_data)][2],
                                    intent'.query_type)
                      ELSE None
      [] fpc' = "raised" ->
            /\ pc' = "raised"
            /\ UNCHANGED <<llm_cache, inflight, history, response>>
      [] OTHER ->
            /\ pc' = "fetch"
            /\ UNCHANGED <<llm_cache, inflight, history, response>>

Init ==
    /\ query \in ProcessQueries
    /\ clock \in BoundaryDates
    /\ pc = "idle"
    /\ out1 = None
    /\ out2 = None
    /\ reads = None
    /\ InitService

\* process_query(query) up to its first await (lines 42-43)
ProcessQuery ==
    /\ pc = "idle"
    /\ \E now \in Readings(clock) :
          LET res == classify_query(query, now)
          IN  /\ intent' = res
              /\ reads' = now
              /\ clock' = now[4]
              /\ StartFetch(res.query_type, res.params)
    /\ AfterFetch
    /\ UNCHANGED <<query, cvars, outcomes>>

\* the request in flight gets a 2xx reply
UpstreamReturn ==
    /\ pc = "fetch"
    /\ \E body \in Bodies(pending) :
          LET r == api_get([kind |-> "http", status |-> 200, body |-> body])
          IN  Resume(r.value, Args(intent.params))
    /\ outcomes' = Append(outcomes, "returned")
    /\ UNCHANGED <<clock, query, reads, cvars, intent>>
    /\ AfterFetch

\* the request in flight fails
UpstreamRaise ==
    /\ pc = "fetch"
    /\ \E reply \in Failures : Unwind(api_get(reply))
    /\ outcomes' = Append(outcomes, "raised")
    /\ UNCHANGED <<clock, query, reads, cvars, intent>>
    /\ AfterFetch

\* the inference call returns (lines 96-111) and process_query returns
\* (lines 48-52)
InferenceReturn ==
    /\ pc = "llm"
    /\ \E reply \in InferenceReplies :
          /\ Reply(reply)
          /\ response' = Response(Outcome(reply).answer, intent.query_type)
    /\ UNCHANGED <<clock, query, reads, cvars, intent, fpc, pending, combined, profiles,
                   todo, calls, outcomes, context, time, result, dvars>>

Next == ProcessQuery \/ UpstreamReturn \/ UpstreamRaise \/ InferenceReturn

Spec == Init /\ [][Next]_vars

(***************************************************************************)
(* Properties of the classifier                                            *)
(***************************************************************************)
QueryTypeLabels ==
    {"player_rankings", "matchups", "injuries", "schedule", "depth_chart", "standings",
     "boxscore", "general"}

\* the team codes of a classification result (params.get("teams", []))
TeamsOf(res) == IF "teams" \in DOMAIN res.params THEN res.params.teams ELSE << >>

\* C1: classification is total: every call returns a (query_type, params)
\* pair whose query_type is one of the eight labels (and whose params hold a
\* year, a week and a season type), for every query, the empty one included
C1_ClassificationTotal ==
    pc # "idle" =>
        /\ out1.query_type \in QueryTypeLabels
        /\ {"year", "week", "season_type"} \subseteq DOMAIN out1.params
        /\ DOMAIN out1.params \subseteq {"year", "week", "season_type", "teams", "player"}
        /\ out1.params.season_type \in {"PRE", "REG", "PST"}

C1_Witness == pc = "classified" /\ query = "" /\ out1.query_type = "general"

\* the keyword groups in the order the specification lists them
KeywordGroups ==
    << [label |-> "player_rankings",
        terms |-> {"ranking", "rank", "best", "top", "stats", "statistics", "projections"}],
       [label |-> "matchups",
        terms |-> {"matchup", "vs", "versus", "against", "playing against", "face off",
                   "game between"}],
       [label |-> "injuries",
        terms |-> {"injury", "injured", "hurt", "sidelined", "out", "questionable",
                   "probable"}],
       [label |-> "schedule",
        terms |-> {"schedule", "upcoming", "games", "playing", "when", "calendar"}],
       [label |-> "depth_chart",
        terms |-> {"depth chart", "roster", "lineup", "starters", "bench",
                   "team composition"}],
       [label |-> "standings",
        terms |-> {"standings", "record", "win-loss", "win/loss", "division standing",
                   "conference standing"}],
       [label |-> "boxscore",
        terms |-> {"boxscore", "score", "result", "game result", "points",
                   "final score"}] >>

GroupsHit(q) == {k \in 1..Len(KeywordGroups) : AnyIn(KeywordGroups[k].terms, q)}

\* C2: the query type is the label of the first keyword group, in the listed
\* order, with a keyword occurring in the lower-cased query, else general; a
\* query with a ranking term and an injury term is classified player_rankings
C2_KeywordPrecedence ==
    pc # "idle" =>
        LET hits == GroupsHit(Lower(query))
        IN  /\ hits = {} => out1.query_type = "general"
            /\ hits # {} => out1.query_type = KeywordGroups[Least(hits)].label
            /\ {1, 3} \subseteq hits => out1.query_type = "player_rankings"

C2_Witness ==
    /\ pc = "classified"
    /\ {1, 3} \subseteq GroupsHit(Lower(query))
    /\ out1.query_type = "player_rankings"

\* C4 as stated: the Eagles/Chiefs query yields the team codes PHI, KC
C4_EaglesThenChiefs ==
    (pc # "idle" /\ query = EaglesChiefsQuery) => TeamsOf(out1) = <<"PHI", "KC">>

\* C4 (amended): the Eagles/Chiefs query yields the team codes KC, PHI, the
\* order of the alias table
C4_ChiefsThenEagles ==
    (pc # "idle" /\ query = EaglesChiefsQuery) => TeamsOf(out1) = <<"KC", "PHI">>

C4_Witness ==
    pc = "classified" /\ query = EaglesChiefsQuery /\ Len(TeamsOf(out1)) = 2

\* the table entries whose alias occurs in q
AliasesHit(q) == {k \in 1..Len(team_patterns) : In(team_patterns[k][1], q)}

\* the n-th least element of S
Nth(S, n) == CHOOSE k \in S : Cardinality({j \in S : j < k}) = n - 1

\* C5: the team codes are the codes of the aliases that occur in the
\* lower-cased query, one per alias, in the order of the alias table; no
\* alias, no team codes
C5_TeamCodesFromTable ==
    pc # "idle" =>
        LET hits == AliasesHit(Lower(query))
            teams == TeamsOf(out1)
        IN  /\ Len(teams) = Cardinality(hits)
            /\ \A n \in 1..Len(teams) : teams[n] = team_patterns[Nth(hits, n)][2]
            /\ hits = {} <=> "teams" \notin DOMAIN out1.params

C5_Witness ==
    /\ pc = "classified"
    /\ query = "Week 3 eagles vs chiefs"
    /\ TeamsOf(out1) = <<"KC", "PHI">>

\* s is a 4-digit token beginning "20"
IsYearToken(s) ==
    /\ Len(s) = 4
    /\ SubSeq(s, 1, 2) = "20"
    /\ SubSeq(s, 3, 3) \in Digits
    /\ SubSeq(s, 4, 4) \in Digits

YearTokens(q) == {i \in 1..(Len(q) - 3) : IsYearToken(SubSeq(q, i, i + 3))}

\* C6: when the query contains a 4-digit token beginning "20" the year is
\* that token (the leftmost one), otherwise it is the current year as a string
C6_YearExtraction ==
    pc # "idle" =>
        LET q == Lower(query)
        IN  IF YearTokens(q) # {}
            THEN out1.params.year = SubSeq(q, Least(YearTokens(q)), Least(YearTokens(q)) + 3)
            ELSE out1.params.year = ToString(reads[1].year)

C6_Witness ==
    /\ pc = "classified"
    /\ query = "standings in 2024"
    /\ out1.params.year = "2024"
    /\ reads[1].year = 2026

DigitValue(c) ==
    CASE c = "0" -> 0 [] c = "1" -> 1 [] c = "2" -> 2 [] c = "3" -> 3 [] c = "4" -> 4
      [] c = "5" -> 5 [] c = "6" -> 6 [] c = "7" -> 7 [] c = "8" -> 8 [] c = "9" -> 9

\* the number a string of digits denotes
RECURSIVE NumberOf(_)
NumberOf(s) ==
    IF s = "" THEN 0 ELSE 10 * NumberOf(SubSeq(s, 1, Len(s) - 1)) + DigitValue(SubSeq(s, Len(s), Len(s)))

WeekTokens(q) == {i \in 1..(Len(q) - 5) : SubSeq(q, i, i + 4) = "week " /\ CharAt(q, i + 5) \in Digits}

\* C7: a query containing "week N" gets the digits of N (of the leftmost
\* such occurrence) as its week, which is N as a string; without one, the
\* week is "1" when the month read is before September and otherwise
\* (month-9)*4 + day//7 + 1 clamped into 1..17, so it lies in 1..17
C7_WeekExtraction ==
    pc # "idle" =>
        LET q == Lower(query)
            week == out1.params.week
        IN  IF WeekTokens(q) # {}
            THEN LET i == Least(WeekTokens(q))
                 IN  /\ Len(week) >= 1
                     /\ \A k \in 1..Len(week) : CharAt(week, k) \in Digits
                     /\ SubSeq(q, i + 5, i + 4 + Len(week)) = week
                     /\ CharAt(q, i + 5 + Len(week)) \notin Digits
                     /\ CharAt(week, 1) # "0" => week = ToString(NumberOf(week))
            ELSE LET m == reads[2].month
                     d == reads[3].day
                     n == ((m - 9) * 4) + (d \div 7) + 1
                 IN  /\ m < 9 => week = "1"
                     /\ m >= 9 => week = ToString(IF n > 17 THEN 17 ELSE IF n < 1 THEN 1 ELSE n)
                     /\ week \in {ToString(k) : k \in 1..17}

C7_Witness ==
    /\ pc = "classified"
    /\ query = ""
    /\ reads[2].month = 12
    /\ reads[3].day = 31
    /\ out1.params.week = "17"

C7_WitnessExplicit ==
    pc = "classified" /\ query = "Week 3 standings week 12" /\ out1.params.week = "3"

\* C8: a raw query in which a position keyword is followed by a space and
\* two capitalized words gets that name as params["player"]
C8_PlayerExtracted ==
    (pc # "idle" /\ NameMatches(query) # {}) =>
        /\ "player" \in DOMAIN out1.params
        /\ out1.params.player = NameGroup(query)

\* C9 as stated: two calls with the same query return the same pair,
\* whatever the clock is at each call
C9_Deterministic == pc = "reclassified" => out2 = out1

SeasonKeywords ==
    {"preseason", "pre-season", "pre season", "postseason", "post-season", "post season",
     "playoffs"}

\* C9 (amended): two calls with the same query return the same query type,
\* team codes and player, and the same year, week and season type wherever
\* the query states them; the others are read from the clock
C9_DeterministicButClock ==
    pc = "reclassified" =>
        LET q == Lower(query)
        IN  /\ out2.query_type = out1.query_type
            /\ DOMAIN out2.params = DOMAIN out1.params
            /\ TeamsOf(out2) = TeamsOf(out1)
            /\ "player" \in DOMAIN out1.params => out2.params.player = out1.params.player
            /\ YearTokens(q) # {} => out2.params.year = out1.params.year
            /\ WeekTokens(q) # {} => out2.params.week = out1.params.week
            /\ AnyIn(SeasonKeywords, q) => out2.params.season_type = out1.params.season_type

C9_Witness ==
    /\ pc = "reclassified"
    /\ query = "in 2024 Eagles roster"
    /\ out1.params.year = "2024"
    /\ out2.params.year = "2024"
    /\ out1.params.week # out2.params.week

\* the phase of the season a month lies in: the postseason in January and
\* February, the preseason until August, the regular season from September
SeasonPhase(month) ==
    IF month < 3 THEN "PST"
    ELSE IF month < 9 THEN "PRE"
    ELSE "REG"

\* C21: without a preseason, postseason or playoffs keyword in the query,
\* the season type is the phase of the current month: PST in January and
\* February, PRE in the other months before September, REG from September
\* to December
C21_DerivedSeasonPhase ==
    (pc = "classified" /\ ~AnyIn(SeasonKeywords, Lower(query))) =>
        out1.params.season_type = SeasonPhase(reads[4].month)

\* the query states no year, no week and no season
NothingStated(q) == YearTokens(q) = {} /\ WeekTokens(q) = {} /\ ~AnyIn(SeasonKeywords, q)

\* the year, week and season type derived from one reading of the clock
DerivedAt(now) ==
    [year        |-> ToString(now.year),
     week        |-> DerivedWeek(now.month, now.day),
     season_type |-> DerivedSeasonType(now.month)]

\* C28: for a query that states no year, week or season, the year, week and
\* season type of one call are those of a single instant, although the clock
\* is read once for each; a derived PRE comes with week "1", and a derived
\* week above "1" comes with REG
C28_DerivedConsistent ==
    (pc = "classified" /\ NothingStated(Lower(query))) =>
        LET p == out1.params
        IN  /\ \E n \in 1..4 :
                  /\ p.year = DerivedAt(reads[n]).year
                  /\ p.week = DerivedAt(reads[n]).week
                  /\ p.season_type = DerivedAt(reads[n]).season_type
            /\ p.season_type = "PRE" => p.week = "1"
            /\ p.week # "1" => p.season_type = "REG"

(***************************************************************************)
(* Properties of process_query and the aggregator                          *)
(***************************************************************************)
\* s is a prefix of t
IsPrefix(s, t) == Len(s) <= Len(t) /\ s = SubSeq(t, 1, Len(s))

\* _fetch_relevant_data has returned
Fetched == pc \in {"llm", "done"}

\* C3: the Eagles standings scenario: year "2023", team codes PHI, type
\* standings; the upstream calls are standings(2023, season_type) and then
\* teams and no other (both are issued unless the standings call fails);
\* data_sources is the standings list
C3_EaglesStandingsScenario ==
    (query = EaglesStandingsQuery /\ pc # "idle") =>
        LET plan == <<get_standings("2023", intent.params.season_type), get_teams>>
        IN  /\ intent.params.year = "2023"
            /\ TeamsOf(intent) = <<"PHI">>
            /\ intent.query_type = "standings"
            /\ calls # << >> /\ IsPrefix(calls, plan)
            /\ (Fetched /\ outcomes[1] = "returned") => calls = plan
            /\ (Fetched /\ outcomes = <<"returned", "returned">>) =>
                    {"standings", "league"} \subseteq DOMAIN context
            /\ pc = "done" =>
                    response.data_sources =
                        <<"NFL division standings", "Conference rankings", "Team records">>

C3_Witness ==
    /\ query = EaglesStandingsQuery
    /\ pc = "done"
    /\ Len(calls) = 2
    /\ outcomes = <<"returned", "returned">>
    /\ response.answer = "an answer"

\* the requests that raised, and those among them no inner try encloses
Raised == {k \in 1..Len(outcomes) : outcomes[k] = "raised"}
Returned == {k \in 1..Len(outcomes) : outcomes[k] = "returned"}
Guarded(req) == req.op \in {"get_team_profile", "get_game_boxscore"}

\* the block of cd that holds the data of request req
HasBlock(cd, req) ==
    CASE req.op = "get_teams" -> "league" \in DOMAIN cd
      [] req.op = "get_standings" -> "standings" \in DOMAIN cd
      [] req.op = "get_schedule" -> "schedule" \in DOMAIN cd
      [] req.op = "get_weekly_injuries" -> "injuries" \in DOMAIN cd
      [] req.op = "get_game_boxscore" -> "boxscore" \in DOMAIN cd
      [] req.op = "get_team_profile" ->
            "team_profiles" \in DOMAIN cd /\ req.path[3] \in DOMAIN cd.team_profiles

\* the calls the fetch plan of a query type always makes
AlwaysFetched(query_type) ==
    CASE query_type = "player_rankings" -> {"get_teams", "get_standings"}
      [] query_type = "matchups" -> {"get_schedule"}
      [] query_type = "injuries" -> {"get_weekly_injuries", "get_teams"}
      [] query_type = "schedule" -> {"get_schedule", "get_teams"}
      [] query_type = "depth_chart" -> {"get_teams"}
      [] query_type = "standings" -> {"get_standings", "get_teams"}
      [] query_type = "boxscore" -> {"get_schedule"}
      [] query_type = "general" -> {"get_teams", "get_standings", "get_schedule"}

OpsCalled == {calls[k].op : k \in 1..Len(calls)}

ProfileCodes ==
    IF TeamsOf(intent) # << >> THEN FirstTwo(TeamsOf(intent))
    ELSE IF intent.query_type = "depth_chart" THEN <<"KC", "SF">> ELSE << >>

ProfileCalls == SelectSeq(calls, LAMBDA req : req.op = "get_team_profile")

C10_WitnessUnguarded ==
    /\ Fetched
    /\ intent.query_type = "general"
    /\ outcomes = <<"returned", "raised">>
    /\ DOMAIN context = {"error", "query_type"}

\* C11: process_query never raises: whatever the query and whichever the
\* upstream calls and the inference call that fail, _fetch_relevant_data
\* returns the combined data or {error, query_type}, and process_query
\* returns exactly the fields query (the input text), answer (a string) and
\* data_sources (the labels of the query type the query was classified as)
C11_ProcessQueryNeverRaises ==
    /\ pc # "raised"
    /\ Fetched =>
          \/ /\ DOMAIN context = {"error", "query_type"}
             /\ context.query_type = intent.query_type
          \/ /\ "error" \notin DOMAIN context
             /\ {"query_type", "metadata"} \subseteq DOMAIN context
             /\ \A k \in Returned : HasBlock(context, calls[k])
    /\ pc = "done" =>
          /\ DOMAIN response = {"query", "answer", "data_sources"}
          /\ response.query = query
          /\ response.answer \in STRING
          /\ response.data_sources = get_data_sources(classify_query(query, reads).query_type)

\* a request whose upstream calls and inference call both failed
C11_Witness ==
    /\ pc = "done"
    /\ Raised # {}
    /\ DOMAIN context = {"error", "query_type"}
    /\ response.answer = RateLimitMessage
    /\ response.data_sources # << >>

\* a request with a failed profile call and an inference call without choices
C11_WitnessCombined ==
    /\ pc = "done"
    /\ Raised # {}
    /\ "error" \notin DOMAIN context
    /\ response.answer = SorryPrefix \o "list index out of range"

\* the requests the fetch plan of a query type always makes
FetchPlan(query_type, a) ==
    CASE query_type = "player_rankings" -> {get_teams, get_standings(a.year, a.season_type)}
      [] query_type = "matchups" -> {get_schedule(a.year, a.season_type)}
      [] query_type = "injuries" ->
            {get_weekly_injuries(a.year, a.season_type, a.week), get_teams}
      [] query_type = "schedule" -> {get_schedule(a.year, a.season_type), get_teams}
      [] query_type = "depth_chart" -> {get_teams}
      [] query_type = "standings" -> {get_standings(a.year, a.season_type), get_teams}
      [] query_type = "boxscore" -> {get_schedule(a.year, a.season_type)}
      [] query_type = "general" ->
            {get_teams, get_standings(a.year, a.season_type),
             get_schedule(a.year, a.season_type)}

\* C18: when no upstream call fails, the calls _fetch_relevant_data issues
\* besides the profile and boxscore calls, which depend on the teams named,
\* are those of the plan of the query type, each issued once, and the data
\* returned carries query_type and metadata {year, season_type, week}
C18_FetchPlan ==
    (Fetched /\ Raised = {}) =>
        LET a == Args(intent.params)
            always == {k \in 1..Len(calls) : ~Guarded(calls[k])}
        IN  /\ {calls[k] : k \in always} = FetchPlan(intent.query_type, a)
            /\ Cardinality(always) = Cardinality(FetchPlan(intent.query_type, a))
            /\ {"query_type", "metadata"} \subseteq DOMAIN context
            /\ context.query_type = intent.query_type
            /\ context.metadata =
                  [year |-> a.year, season_type |-> a.season_type, week |-> a.week]

\* the plan of a general query run without a failure
C18_Witness ==
    /\ Fetched
    /\ Raised = {}
    /\ intent.query_type = "general"
    /\ Len(calls) = 3
    /\ {"league", "standings", "schedule"} \subseteq DOMAIN context

\* the plan of an injuries query: the weekly report of the year, season type
\* and week of the query
C18_WitnessInjuries ==
    /\ Fetched
    /\ Raised = {}
    /\ query = "injury report week 3"
    /\ calls[1].op = "get_weekly_injuries"
    /\ calls[1].path[5] = "3"

\* C20: a client method issues exactly one GET, that of its resource, and
\* ends on the reply to it without another GET: it returns the parsed body
\* of a 2xx reply, raises HTTPException with the status of a reply that is
\* not 2xx, and raises HTTPException with the code 500 when no reply comes
\* (or when the text of a 2xx reply is not JSON); a call that fails returns
\* no value
C20_ClientErrorMapping ==
    /\ pc = "get" => calls = <<pending>>
    /\ pc \in {"returned", "raised"} =>
          LET r == result.reply
              o == result.got
          IN  /\ Len(calls) = 1
              /\ calls[1] \in ClientRequests
              /\ o.raised <=> pc = "raised"
              /\ o.raised => "value" \notin DOMAIN o
              /\ IF r.kind = "transport" THEN o.raised /\ o.status_code = 500
                 ELSE IF ~IsSuccess(r.status) THEN o.raised /\ o.status_code = r.status
                 ELSE IF "body" \in DOMAIN r THEN ~o.raised /\ o.value = r.body
                 ELSE o.raised /\ o.status_code = 500

\* a call that ended in a reply with the status 404
C20_Witness ==
    /\ pc = "raised"
    /\ calls = <<get_weekly_injuries("2024", "PST", "17")>>
    /\ result.reply.kind = "http" /\ result.reply.status = 404
    /\ result.got.status_code = 404

\* a call that ended in a 2xx reply, and one that got no reply
C20_WitnessReturned ==
    /\ pc = "returned"
    /\ calls = <<get_team_profile("KC")>>
    /\ result.reply.status = 201
    /\ result.got.value = [alias |-> "KC"]

C20_WitnessTransport ==
    /\ pc = "raised"
    /\ result.reply.kind = "transport"
    /\ result.got.status_code = 500

\* process_query has called _fetch_relevant_data
Fetching == pc \in {"fetch", "llm", "done"}

\* the combined data as far as it is built
DataSoFar == IF Fetched THEN context ELSE combined

BoxscoreCalls == {k \in 1..Len(calls) : calls[k].op = "get_game_boxscore"}

\* the games of the schedule that have a home or away alias among teams
Matching(games, teams) ==
    {n \in 1..Len(games) :
        \E i \in 1..Len(teams) : teams[i] \in {games[n].home, games[n].away}}

\* C22: for a boxscore query the boxscore call is issued only after the
\* schedule call has returned, only when team codes are present and a game of
\* the schedule has a home or away alias among them, and for the id of a game
\* with the greatest scheduled timestamp among those games; relevant_games
\* holds the (at most) 2 most recent of those games, the most recent first;
\* a failed boxscore call leaves schedule and relevant_games in the result
C22_BoxscoreOrdering ==
    (Fetching /\ intent.query_type = "boxscore") =>
        LET cd == DataSoFar
            teams == TeamsOf(intent)
        IN  /\ \A k \in BoxscoreCalls :
                  /\ k = 2
                  /\ calls[1].op = "get_schedule"
                  /\ outcomes[1] = "returned"
                  /\ teams # << >>
                  /\ LET games == cd.schedule.games
                         among == Matching(games, teams)
                     IN  \E n \in among :
                            /\ calls[k] = get_game_boxscore(games[n].id)
                            /\ \A m \in among : games[m].scheduled <= games[n].scheduled
            /\ "relevant_games" \in DOMAIN cd =>
                  LET games == cd.schedule.games
                      among == Matching(games, teams)
                      rg == cd.relevant_games
                  IN  /\ Len(rg) = Min(2, Cardinality(among))
                      /\ \A i \in 1..(Len(rg) - 1) : rg[i].scheduled >= rg[i + 1].scheduled
                      /\ \E f \in [1..Len(rg) -> among] :
                            /\ \A i, j \in 1..Len(rg) : f[i] = f[j] => i = j
                            /\ \A i \in 1..Len(rg) : rg[i] = games[f[i]]
                            /\ \A m \in among \ {f[i] : i \in 1..Len(rg)} :
                                  games[m].scheduled <= rg[Len(rg)].scheduled
            /\ (Fetched /\ \E k \in BoxscoreCalls : outcomes[k] = "raised") =>
                  /\ {"schedule", "relevant_games"} \subseteq DOMAIN context
                  /\ "boxscore" \notin DOMAIN context
                  /\ "error" \notin DOMAIN context

\* a boxscore query naming two teams: four games match, the two most recent
\* are kept and the boxscore of the first is requested and fails
C22_Witness ==
    /\ Fetched
    /\ query = "points Eagles 49ers"
    /\ outcomes = <<"returned", "raised">>
    /\ calls[2] = get_game_boxscore("g3")
    /\ context.relevant_games =
          <<Game("g3", "PHI", "DAL", 3), Game("g4", "SF", "KC", 3)>>
    /\ Len(context.schedule.games) = 4

\* the most recent game is not the first of the schedule
C22_WitnessLater ==
    /\ Fetched
    /\ query = "final score chiefs"
    /\ outcomes = <<"returned", "returned">>
    /\ calls[2] = get_game_boxscore("g4")
    /\ "boxscore" \in DOMAIN context

\* C23: team profiles are requested for the first two team codes only: for
\* player_rankings, matchups and depth_chart the profile requests are those
\* of the first 2 codes of the list, in order, never more than 2; for
\* depth_chart without team codes they are those of KC and SF; a failed
\* profile request leaves only its team out of team_profiles, and the block
\* is still there
C23_ProfilesFirstTwo ==
    Fetching =>
        LET teams == TeamsOf(intent)
            wanted == IF teams # << >>
                      THEN [n \in 1..Min(2, Len(teams)) |-> get_team_profile(teams[n])]
                      ELSE IF intent.query_type = "depth_chart"
                      THEN <<get_team_profile("KC"), get_team_profile("SF")>>
                      ELSE << >>
            profileCalls == {k \in 1..Len(calls) : calls[k].op = "get_team_profile"}
        IN  /\ Len(ProfileCalls) <= 2
            /\ IsPrefix(ProfileCalls, wanted)
            /\ (Fetched /\ ProfileCalls # << >>) =>
                  /\ intent.query_type \in {"player_rankings", "matchups", "depth_chart"}
                  /\ ProfileCalls = wanted
                  /\ "team_profiles" \in DOMAIN context
                  /\ DOMAIN context.team_profiles =
                        {calls[k].path[3] : k \in profileCalls \cap Returned}
                  /\ \A code \in DOMAIN context.team_profiles :
                        context.team_profiles[code] = [alias |-> code]

\* three team codes, two profile requests
C23_Witness ==
    /\ Fetched
    /\ intent.query_type = "player_rankings"
    /\ Len(TeamsOf(intent)) = 3
    /\ Len(ProfileCalls) = 2
    /\ Len(calls) = 4

\* depth_chart without team codes: the default pair, the first of which fails
C23_WitnessDefaultPair ==
    /\ Fetched
    /\ query = "roster"
    /\ ProfileCalls = <<get_team_profile("KC"), get_team_profile("SF")>>
    /\ outcomes = <<"returned", "raised", "returned">>
    /\ DOMAIN context.team_profiles = {"SF"}

\* C27 as stated: the team code list never holds a code twice, so the team
\* profile requests of one query are for distinct teams
C27_DistinctTeamCodes ==
    Fetching =>
        LET teams == TeamsOf(intent)
        IN  /\ \A i, j \in 1..Len(teams) : teams[i] = teams[j] => i = j
            /\ \A i, j \in 1..Len(ProfileCalls) : ProfileCalls[i] = ProfileCalls[j] => i = j

\* C27 (amended): the team code list holds a code once for every alias of
\* that team occurring in the query: once at most when the query names one
\* alias of each team, twice when it names two aliases of one team; the team
\* profile requests of one query are for distinct teams exactly when the
\* first two codes of the list differ
C27_OncePerAlias ==
    Fetching =>
        LET teams == TeamsOf(intent)
            hits == AliasesHit(Lower(query))
            codes == {team_patterns[k][2] : k \in 1..Len(team_patterns)}
        IN  /\ \A code \in codes :
                  Occurrences(code, teams) =
                      Cardinality({k \in hits : team_patterns[k][2] = code})
            /\ \A n \in 1..Len(teams) : teams[n] \in codes
            /\ (Fetched /\ Len(ProfileCalls) = 2) =>
                  (ProfileCalls[1] = ProfileCalls[2]
                      <=> (Len(teams) >= 2 /\ teams[1] = teams[2]))

\* a query naming two aliases of one team: SF twice, and two requests for
\* the profile of SF
C27_Witness ==
    /\ Fetched
    /\ query = "the best of the 49ers, niners and Eagles"
    /\ TeamsOf(intent) = <<"PHI", "SF", "SF">>
    /\ ProfileCalls = <<get_team_profile("PHI"), get_team_profile("SF")>>

C27_WitnessSameTeam ==
    /\ Fetched
    /\ query = "49ers niners roster"
    /\ intent.query_type = "depth_chart"
    /\ TeamsOf(intent) = <<"SF", "SF">>
    /\ ProfileCalls = <<get_team_profile("SF"), get_team_profile("SF")>>

\* the calls of generate_response that issued an inference call
InferenceCalls == {i \in 1..Len(history) : history[i].state \in {"awaiting", "replied"}}

\* C30: one process_query call issues at most 4 upstream requests and none
\* after a failed request other than a team_profile or boxscore request; it
\* calls generate_response once, after the fetch has returned, also when the
\* fetch returned {error, query_type}, and that call issues at most one
\* inference call
C30_BoundedOutboundWork ==
    /\ Len(calls) <= 4
    /\ \A k \in Raised : ~Guarded(calls[k]) => k = Len(calls)
    /\ ~Fetched => history = << >>
    /\ Fetched =>
          /\ Len(history) = 1
          /\ Cardinality(InferenceCalls) <= 1
          /\ Len(outcomes) = Len(calls)
    /\ pc = "done" => Len(history) = 1 /\ history[1].state \in {"hit", "replied"}

\* a player_rankings request with 4 upstream requests, two of them failed,
\* and one inference call
C30_Witness ==
    /\ pc = "done"
    /\ Len(calls) = 4
    /\ outcomes = <<"returned", "returned", "raised", "raised">>
    /\ InferenceCalls = {1}

\* the fetch returned {error, query_type} after its first request: the
\* gateway is still called, once
C30_WitnessError ==
    /\ pc = "done"
    /\ outcomes = <<"raised">>
    /\ intent.query_type = "general"
    /\ DOMAIN context = {"error", "query_type"}
    /\ Len(history) = 1
    /\ history[1].state = "replied"

(***************************************************************************)
(* Properties of the summarizers                                           *)
(***************************************************************************)
Summarized == pc = "summarized" /\ ~digest.raised

\* the number of items of a list of the digest (a fallback has none)
Count(x, key) == IF IsDict(x) /\ key \in DOMAIN x.v /\ IsList(x.v[key]) THEN Len(x.v[key].v)
                 ELSE 0

\* the lists of x[key], a list of dicts
Each(x, key) ==
    IF IsDict(x) /\ key \in DOMAIN x.v /\ IsList(x.v[key])
    THEN {x.v[key].v[i] : i \in 1..Len(x.v[key].v)} ELSE {}

\* the item counts of the digest r of a block, by the summarizer that made it
ItemCounts(fn, r) ==
    CASE fn \in {"summarize_league_structure", "summarize_standings_data"} ->
            {Count(r, "conferences")}
                \cup {Count(c, "divisions") : c \in Each(r, "conferences")}
                \cup UNION {{Count(d, "teams") : d \in Each(c, "divisions")} :
                                c \in Each(r, "conferences")}
      [] fn = "summarize_schedule_data" -> {Count(r, "games")}
      [] fn = "summarize_games" -> {IF IsList(r) THEN Len(r.v) ELSE 0}
      [] fn = "summarize_injury_data" ->
            {Count(r, "teams_with_injuries")}
                \cup {Count(team, "injuries") : team \in Each(r, "teams_with_injuries")}
      [] fn = "summarize_team_injuries" -> {Count(r, "injured_players")}
      [] fn = "summarize_team_profile" -> {Count(r, "coaches"), Count(r, "key_players")}
      [] fn = "summarize_boxscore" ->
            {Count(r.v.home, "scoring"), Count(r.v.away, "scoring")}
      [] fn = "extract_key_stats" -> {Cardinality(DOMAIN r.v)}

\* the summarizer of each block of a context, and of the entries of the
\* blocks that are dicts of blocks
SummarizerOf(key) ==
    CASE key = "league" -> "summarize_league_structure"
      [] key = "standings" -> "summarize_standings_data"
      [] key = "schedule" -> "summarize_schedule_data"
      [] key = "team_profiles" -> "summarize_team_profile"
      [] key = "injuries" -> "summarize_injury_data"
      [] key = "team_injuries" -> "summarize_team_injuries"
      [] key \in {"relevant_games", "team_games"} -> "summarize_games"
      [] key = "boxscore" -> "summarize_boxscore"

PerTeam == {"team_profiles", "team_injuries", "team_games"}

\* the item counts of the block of key of the digest r of a context
BlockCounts(key, r) ==
    LET block == r.v[DigestKey(key)]
    IN  IF key \in PerTeam
        THEN UNION {ItemCounts(SummarizerOf(key), block.v[code]) : code \in DOMAIN block.v}
        ELSE ItemCounts(SummarizerOf(key), block)

\* the blocks of the context that the digest r holds
BlocksIn(r) == {key \in BlockKeys : DigestKey(key) \in DOMAIN r.v}

\* the largest cap the summarizers apply (lines 241, 267, 369, 399, 408)
ItemCap == 10

\* C15 as stated: every block of the digest holds at most a fixed number of
\* items, whatever the size of the payload
C15_EveryBlockBounded ==
    Summarized =>
        IF payload.fn = "summarize_context_data"
        THEN \A key \in BlocksIn(digest.value) :
                \A n \in BlockCounts(key, digest.value) : n <= ItemCap
        ELSE \A n \in ItemCounts(payload.fn, digest.value) : n <= ItemCap

\* the cap of the lists of the digest of each summarizer that has one
Caps(fn, r) ==
    CASE fn = "summarize_schedule_data" -> {<<Count(r, "games"), 10>>}
      [] fn = "summarize_games" -> {<<IF IsList(r) THEN Len(r.v) ELSE 0, 5>>}
      [] fn = "summarize_injury_data" ->
            {<<Count(r, "teams_with_injuries"), 10>>}
                \cup {<<Count(team, "injuries"), 10>> : team \in Each(r, "teams_with_injuries")}
      [] fn = "summarize_team_injuries" -> {<<Count(r, "injured_players"), 10>>}
      [] fn = "summarize_team_profile" ->
            {<<Count(r, "coaches"), 3>>, <<Count(r, "key_players"), 10>>}
      [] fn = "extract_key_stats" -> {<<Cardinality(DOMAIN r.v), 4>>}
      [] OTHER -> {}

\* the lists the summarizers copy whole: conferences, divisions and teams of
\* the league and the standings, the scoring arrays of the boxscore
CopiedWhole(fn, arg, r) ==
    CASE fn \in {"summarize_league_structure", "summarize_standings_data"} ->
            ("conferences" \in DOMAIN r.v) =>
                /\ Count(r, "conferences") = Count(arg, "conferences")
                /\ \A i \in 1..Count(r, "conferences") :
                      LET c == r.v.conferences.v[i]
                          source == arg.v.conferences.v[i]
                      IN  /\ Count(c, "divisions") = Count(source, "divisions")
                          /\ \A j \in 1..Count(c, "divisions") :
                                Count(c.v.divisions.v[j], "teams")
                                    = Count(source.v.divisions.v[j], "teams")
      [] fn = "summarize_boxscore" ->
            /\ r.v.home.v.scoring = Get2(arg, "home", "scoring", EmptyList)
            /\ r.v.away.v.scoring = Get2(arg, "away", "scoring", EmptyList)
      [] OTHER -> TRUE

\* C15 (amended): the games of a schedule (10), the games of relevant_games
\* and of each team's team_games (5), the teams of an injury report and the
\* players of each (10), the players of a team's injuries (10), the coaches
\* (3) and key players (10) of a team profile are capped whatever the
\* payload holds; the conferences, divisions and teams of league_structure
\* and standings and the scoring arrays of the boxscore are as many as the
\* payload holds
C15_CappedBlocksBounded ==
    Summarized =>
        IF payload.fn = "summarize_context_data"
        THEN \A key \in BlocksIn(digest.value) :
                LET block == digest.value.v[DigestKey(key)]
                    source == payload.arg.v[key]
                    fn == SummarizerOf(key)
                IN  IF key \in PerTeam
                    THEN \A code \in DOMAIN block.v :
                            \A c \in Caps(fn, block.v[code]) : c[1] <= c[2]
                    ELSE /\ \A c \in Caps(fn, block) : c[1] <= c[2]
                         /\ CopiedWhole(fn, source, block)
        ELSE /\ \A c \in Caps(payload.fn, digest.value) : c[1] <= c[2]
             /\ CopiedWhole(payload.fn, payload.arg, digest.value)

\* a schedule of more games than the cap is cut to the cap; a league of more
\* conferences than any cap is kept whole
C15_Witness ==
    /\ Summarized
    /\ payload.fn = "summarize_schedule_data"
    /\ Count(payload.arg, "games") = MaxItems
    /\ Count(digest.value, "games") = 10

C15_WitnessWhole ==
    /\ Summarized
    /\ payload.fn = "summarize_league_structure"
    /\ Count(payload.arg, "conferences") = MaxItems
    /\ Count(digest.value, "conferences") = MaxItems

\* what a summarizer returns for {}
EmptySummary(fn) ==
    CASE fn = "summarize_schedule_data" ->
            JDict([year |-> JStr(""), type |-> JStr(""), games |-> EmptyList])
      [] fn = "summarize_injury_data" ->
            JDict([week |-> JStr(""), teams_with_injuries |-> EmptyList])
      [] fn = "summarize_games" -> EmptyList
      [] fn = "summarize_boxscore" ->
            LET side == JDict([name |-> JStr(""), alias |-> JStr(""), points |-> JNum(0),
                               scoring |-> EmptyList, statistics |-> EmptyDict])
            IN  JDict([id |-> JStr(""), status |-> JStr(""), scheduled |-> JStr(""),
                       home |-> side, away |-> side])
      [] OTHER -> EmptyDict

\* C16: a summarizer of a block returns a value, whatever its input, and for
\* {} the value is its empty summary
C16_SummarizersNeverRaise ==
    (pc = "summarized" /\ payload.fn \in Summarizers) =>
        /\ ~digest.raised
        /\ payload.arg = EmptyDict => digest.value = EmptySummary(payload.fn)

\* the part of C16 that holds of the code: {} gets the empty summary, and
\* the summarizers of team profiles and of games never raise
C16_EmptyInputSummarized ==
    (pc = "summarized" /\ payload.fn \in Summarizers) =>
        /\ payload.arg = EmptyDict =>
              ~digest.raised /\ digest.value = EmptySummary(payload.fn)
        /\ payload.fn \in {"summarize_team_profile", "summarize_games"} => ~digest.raised

\* the short textual fallback of a block: of the block itself, of the list of
\* games, or of the entry of a team
IsFallback(x) ==
    \/ IsDict(x) /\ DOMAIN x.v = {"summary"}
    \/ IsList(x) /\ Len(x.v) = 1 /\ IsDict(x.v[1]) /\ DOMAIN x.v[1].v = {"summary"}

HasFallback(key, block) ==
    IF key \in PerTeam
    THEN IsDict(block) /\ \E code \in DOMAIN block.v : IsFallback(block.v[code])
    ELSE IsFallback(block)

\* C17: when the summarization of one block of a context fails, the digest
\* holds the fallback in the place of that block and the summary of every
\* other block of the context
C17_PerBlockIsolation ==
    (pc = "summarized" /\ payload.fn = "summarize_context_data" /\ payload.bad # None) =>
        /\ ~digest.raised
        /\ \A key \in BlockKeys \cap DOMAIN payload.arg.v :
              /\ DigestKey(key) \in DOMAIN digest.value.v
              /\ IF key = payload.bad
                 THEN HasFallback(key, digest.value.v[DigestKey(key)])
                 ELSE digest.value.v[DigestKey(key)]
                          = BlockSummary(payload.arg, key).value

\* the part of C17 that holds of the code: a failure a summarizer catches
\* itself leaves the other blocks summarized; one it lets escape
\* (_summarize_boxscore has no try) leaves the degraded digest alone
C17_EscapedFailureDegradesAll ==
    (pc = "summarized" /\ payload.fn = "summarize_context_data" /\ payload.bad # None) =>
        /\ ~digest.raised
        /\ IF BlockSummary(payload.arg, payload.bad).raised
           THEN digest.value = DegradedDigest
           ELSE \A key \in BlockKeys \cap DOMAIN payload.arg.v :
                    /\ DigestKey(key) \in DOMAIN digest.value.v
                    /\ key = payload.bad =>
                          HasFallback(key, digest.value.v[DigestKey(key)])
                    /\ digest.value.v[DigestKey(key)]
                          = BlockSummary(payload.arg, key).value

\* the fields _extract_key_stats keeps of each block, and where it reads them
KeyFields(b) ==
    CASE b = "team" -> {"first_downs", "total_yards", "penalties", "penalty_yards",
                        "turnovers", "time_of_possession"}
      [] b = "passing" -> {"completions", "attempts", "yards", "touchdowns",
                           "interceptions"}
      [] b = "rushing" -> {"attempts", "yards", "touchdowns"}
      [] b = "receiving" -> {"receptions", "yards", "touchdowns"}

ReadFrom(field) == IF field = "time_of_possession" THEN "possession_time" ELSE field

\* C19: the blocks _extract_key_stats produces are those of team, passing,
\* rushing and receiving the input holds, each with exactly its listed
\* fields, whose values are the input's (or the default); no other key of
\* the input is carried over
C19_KeyStatsOnly ==
    (Summarized /\ payload.fn = "extract_key_stats") =>
        LET stats == payload.arg
            out == digest.value
        IN  /\ IsDict(out)
            /\ DOMAIN out.v \subseteq {"team", "passing", "rushing", "receiving"}
            /\ IsDict(stats) =>
                  DOMAIN out.v = DOMAIN stats.v \cap {"team", "passing", "rushing", "receiving"}
            /\ \A b \in DOMAIN out.v :
                  /\ IsDict(out.v[b])
                  /\ DOMAIN out.v[b].v = KeyFields(b)
                  /\ \A f \in KeyFields(b) :
                        out.v[b].v[f] =
                            Get(stats.v[b], ReadFrom(f),
                                IF f = "time_of_possession" THEN JStr("") ELSE JNum(0))

C19_Witness ==
    /\ Summarized
    /\ payload.fn = "extract_key_stats"
    /\ payload.arg = StatsBody
    /\ DOMAIN digest.value.v = {"team", "passing", "rushing", "receiving"}
    /\ "rating" \in DOMAIN payload.arg.v.passing.v
    /\ digest.value.v.team.v.time_of_possession = JStr("31:10")

(***************************************************************************)
(* Properties of the LLM gateway                                           *)
(***************************************************************************)
\* C12: generate_response never raises: whatever the query, the context
\* (absent, empty, well formed or malformed) and the outcome of the inference
\* call, every call returns a string
C12_GatewayNeverRaises == \A i \in 1..Len(history) : history[i].state # "raised"

\* the call i of history issued an inference call
Posted(i) == history[i].state \in {"awaiting", "replied"}

\* the call i of history has ended
Ended(i) == history[i].state # "awaiting"

\* the reply carries an answer
Success(reply) ==
    reply.kind = "http" /\ IsSuccess(reply.status) /\ reply.body.choices # << >>

\* the inference call of the call i of history succeeded
Succeeded(i) == history[i].state = "replied" /\ Success(history[i].reply)

\* C13 as stated: of two calls in a row with the same query and context made
\* less than 600 seconds apart exactly one issues an inference call and the
\* second returns the answer of the first; made 600 seconds or more apart,
\* the second issues an inference call
C13_RoundTripAlways ==
    \A i \in 1..(Len(history) - 1) :
        (history[i].cache_key = history[i + 1].cache_key /\ Ended(i + 1)) =>
            IF history[i + 1].now - history[i].now < LLM_CACHE_TTL
            THEN /\ Cardinality({k \in {i, i + 1} : Posted(k)}) = 1
                 /\ history[i + 1].answer = history[i].answer
            ELSE Posted(i + 1)

\* C13: the same of two calls in a row the first of which got an answer from
\* its inference call: less than 600 seconds apart the second issues no
\* inference call and returns the answer of the first; 600 seconds or more
\* apart the second issues an inference call
C13_RoundTrip ==
    \A i \in 1..(Len(history) - 1) :
        (history[i].cache_key = history[i + 1].cache_key /\ Succeeded(i)) =>
            IF history[i + 1].now - history[i].now < LLM_CACHE_TTL
            THEN /\ history[i + 1].state = "hit"
                 /\ Cardinality({k \in {i, i + 1} : Posted(k)}) = 1
                 /\ history[i + 1].answer = history[i].answer
            ELSE Posted(i + 1)

\* a call answered from the cache 599 seconds after the call that stored the answer
C13_Witness ==
    /\ Len(history) >= 2
    /\ Succeeded(1)
    /\ history[2].now - history[1].now = LLM_CACHE_TTL - 1
    /\ history[2].state = "hit"
    /\ history[2].answer = "an answer"

\* a call 600 seconds after the call that stored the answer asks again
C13_WitnessExpired ==
    /\ Len(history) >= 2
    /\ Succeeded(1)
    /\ history[2].now - history[1].now = LLM_CACHE_TTL
    /\ Posted(2)

\* a first call that failed leaves nothing to return: the second call, 599
\* seconds later, issues an inference call of its own
C13_WitnessFailedFirst ==
    /\ Len(history) >= 2
    /\ history[1].state = "replied" /\ ~Success(history[1].reply)
    /\ history[2].now - history[1].now = LLM_CACHE_TTL - 1
    /\ Posted(2)

\* C14: a failed inference call is never cached: on a 429 the call returns
\* the fixed rate-limit message, on any other failure an apology that ends in
\* the error text, and both leave llm_cache as it was; llm_cache changes only
\* when an inference call succeeds, by the entry (now, answer) of that call
C14_FailuresNotCached ==
    [][LET h == history'[Len(history')]
       IN  /\ (pc = "llm" /\ pc' = "done") =>
                 IF Success(h.reply)
                 THEN /\ h.answer = h.reply.body.choices[1].message.content
                      /\ llm_cache' = Put(llm_cache, h.cache_key, <<h.now, h.answer>>)
                 ELSE /\ llm_cache' = llm_cache
                      /\ IF h.reply.kind = "http" /\ h.reply.status = 429
                         THEN h.answer = RateLimitMessage
                         ELSE /\ Len(h.answer) > Len(SorryPrefix)
                              /\ SubSeq(h.answer, 1, Len(SorryPrefix)) = SorryPrefix
           /\ llm_cache' # llm_cache =>
                 pc = "llm" /\ pc' = "done" /\ Success(h.reply)]_vars

\* a call that ended in a 429 after a call that stored an answer: the entry
\* of the first call is still the only one
C14_Witness ==
    /\ Len(history) >= 2
    /\ Succeeded(1)
    /\ history[2].state = "replied"
    /\ history[2].reply.kind = "http" /\ history[2].reply.status = 429
    /\ history[2].answer = RateLimitMessage
    /\ DOMAIN llm_cache = {history[1].cache_key}
    /\ llm_cache[history[1].cache_key] = <<history[1].now, history[1].answer>>

\* a call that ended in a failure other than a 429
C14_WitnessApology ==
    /\ Len(history) >= 1
    /\ history[1].state = "replied"
    /\ history[1].reply.kind = "transport"
    /\ history[1].answer = SorryPrefix \o "ConnectError"
    /\ llm_cache = << >>

\* the messages of the request of the call in progress
Sent == inflight.messages

\* C24: when a context is given, the third system message holds the rendered
\* digest cut to at most 4000 characters, with the truncation marker appended
\* if and only if the rendering was longer than 4000 characters, so that it
\* is never longer than 4000 characters and the marker; the messages sent are
\* the instruction, the usage instructions and the context, in this order,
\* and the query last; without a context the instruction alone precedes the
\* query
C24_PromptContextBound ==
    pc = "llm" =>
        IF Truth(context)
        THEN LET text == Sent[3].content
                 whole == RenderedLen(context)
             IN  /\ Len(Sent) = 4
                 /\ [i \in 1..4 |-> Sent[i].role] = <<"system", "system", "system", "user">>
                 /\ Sent[1].content = JStr("instructions")
                 /\ Sent[2].content = JStr("data_instructions")
                 /\ Sent[4].content = JStr(query)
                 /\ text.v = summarize_context_data(context).value
                 /\ text.kept = Min(whole, 4000)
                 /\ text.tail \in {"", TruncationMarker}
                 /\ text.tail = TruncationMarker <=> whole > 4000
                 /\ text.kept + Len(text.tail) <= 4000 + Len(TruncationMarker)
        ELSE Sent = <<[role |-> "system", content |-> JStr("instructions")],
                      [role |-> "user", content |-> JStr(query)]>>

\* a rendering of 4000 characters is sent whole, without the marker
C24_Witness ==
    /\ pc = "llm"
    /\ Truth(context)
    /\ RenderedLen(context) = 4000
    /\ Sent[3].content.kept = 4000
    /\ Sent[3].content.tail = ""

\* a rendering of 4001 characters is cut and marked
C24_WitnessCut ==
    /\ pc = "llm"
    /\ Truth(context)
    /\ RenderedLen(context) = 4001
    /\ Sent[3].content.kept = 4000
    /\ Sent[3].content.tail = TruncationMarker

\* no context: two messages
C24_WitnessNoContext ==
    /\ pc = "llm"
    /\ context = JNull
    /\ Len(Sent) = 2

\* the calls that start in a step, and those whose inference call ends in it
Started == {i \in 1..Len(history') : i > Len(history)}
Completed ==
    {i \in 1..Len(history) : history[i].state = "awaiting" /\ history'[i].state = "replied"}

\* the step writes the entry of llm_cache at key
Written(key) ==
    /\ key \in DOMAIN llm_cache'
    /\ key \in DOMAIN llm_cache => llm_cache'[key] # llm_cache[key]

\* C25: no entry of llm_cache is ever evicted: the set of its keys never
\* shrinks; a call that finds an entry of the TTL's age or older leaves it
\* where it is and issues an inference call; an entry changes only when an
\* inference call for its key succeeds, by the entry of that call
C25_NeverEvicted ==
    [][/\ DOMAIN llm_cache \subseteq DOMAIN llm_cache'
       /\ \A i \in Started :
             LET h == history'[i]
             IN  /\ llm_cache' = llm_cache
                 /\ (/\ h.cache_key \in DOMAIN llm_cache
                     /\ h.now - llm_cache[h.cache_key][1] >= 600) => h.state # "hit"
       /\ \A key \in DOMAIN llm_cache :
             llm_cache'[key] # llm_cache[key] =>
                 \E i \in Completed :
                    /\ history[i].cache_key = key
                    /\ Success(history'[i].reply)
                    /\ llm_cache'[key] = <<history[i].now, history'[i].answer>>]_vars

\* an entry 600 seconds old when a call for its key starts: the call issues
\* an inference call and the entry is still there
C25_Witness ==
    \E i \in 1..Len(history) :
        /\ history[i].state = "awaiting"
        /\ history[i].cache_key \in DOMAIN llm_cache
        /\ history[i].now - llm_cache[history[i].cache_key][1] = LLM_CACHE_TTL

\* the stale entry overwritten by the call that bypassed it, with another
\* key in the cache
C25_WitnessOverwritten ==
    /\ Cardinality(DOMAIN llm_cache) = 2
    /\ \E i, j \in 1..Len(history) :
          /\ i < j
          /\ Succeeded(i) /\ Succeeded(j)
          /\ history[i].cache_key = history[j].cache_key
          /\ history[j].now - history[i].now >= LLM_CACHE_TTL
          /\ llm_cache[history[j].cache_key] = <<history[j].now, history[j].answer>>

\* C26: the cache needs no lock: under every interleaving a call returns a
\* cached answer whose timestamp is less than 600 seconds before the start
\* of the call, or the outcome of its own inference call; every entry of
\* the cache is the (timestamp, answer) pair of one call for its key whose
\* inference call succeeded (two calls with the same key may both issue an
\* inference call: the witness)
C26_NoLockNeeded ==
    [][/\ \A i \in Started :
             LET h == history'[i]
             IN  h.state = "hit" =>
                    /\ h.cache_key \in DOMAIN llm_cache
                    /\ h.answer = llm_cache[h.cache_key][2]
                    /\ h.now - llm_cache[h.cache_key][1] < 600
                    /\ h.now >= llm_cache[h.cache_key][1]
       /\ \A i \in Completed :
             LET h == history'[i]
             IN  /\ h.cache_key = history[i].cache_key /\ h.now = history[i].now
                 /\ IF Success(h.reply)
                    THEN h.answer = h.reply.body.choices[1].message.content
                    ELSE h.answer = RateLimitMessage
       /\ \A i \in 1..Len(history) : history[i].state # "awaiting" => history'[i] = history[i]
       /\ \A key \in DOMAIN llm_cache' :
             \E i \in 1..Len(history') :
                /\ history'[i].state = "replied"
                /\ Success(history'[i].reply)
                /\ history'[i].cache_key = key
                /\ llm_cache'[key] = <<history'[i].now, history'[i].answer>>]_vars

\* two calls with the same key wait for their inference calls at once
C26_Witness ==
    \E i, j \in 1..Len(history) :
        /\ i < j
        /\ history[i].cache_key = history[j].cache_key
        /\ history[i].state = "awaiting"
        /\ history[j].state = "awaiting"

\* a call answered from the cache while another call is waiting
C26_WitnessHit ==
    \E i, j \in 1..Len(history) :
        /\ i < j
        /\ history[i].state = "awaiting"
        /\ history[j].state = "hit"
        /\ history[j].answer = "another answer"

\* C29 as stated: a write to llm_cache never replaces an entry by one with
\* an older timestamp
C29_TimestampsMonotonic ==
    [][\A key \in DOMAIN llm_cache : llm_cache'[key][1] >= llm_cache[key][1]]_vars

\* C29 (amended): the timestamp a write stores is the clock reading of the
\* start of the writing call, never later than the clock at the write; the
\* write replaces an entry by one with an older timestamp exactly when the
\* writing call started before the call that wrote that entry
C29_StampIsCallStart ==
    [][\A key \in DOMAIN llm_cache' :
          Written(key) =>
             \E i \in Completed :
                /\ history[i].cache_key = key
                /\ llm_cache'[key][1] = history[i].now
                /\ history[i].now <= time
                /\ key \in DOMAIN llm_cache =>
                      \E j \in 1..Len(history) :
                         /\ Succeeded(j)
                         /\ history[j].cache_key = key
                         /\ llm_cache[key][1] = history[j].now
                         /\ (llm_cache'[key][1] < llm_cache[key][1]
                                <=> history[i].now < history[j].now)]_vars

\* the entry of a key is older than a call for the key that started later
\* and whose inference call succeeded first
C29_Witness ==
    \E i, j \in 1..Len(history) :
        /\ i < j
        /\ Succeeded(i) /\ Succeeded(j)
        /\ history[i].cache_key = history[j].cache_key
        /\ history[i].now < history[j].now
        /\ llm_cache[history[i].cache_key] = <<history[i].now, history[i].answer>>
        /\ history[i].answer # history[j].answer

====
